---- MODULE Spec2Model ----
(***************************************************************************)
(* Model of the verbaflow text generation path:                            *)
(*   - service.Server.GenerateTokens        (src/cmd/main.go)              *)
(*   - VerbaFlow.Generate                   (src/unnamed/part_002)         *)
(*   - decoder.New / Decoder.Decode         (src/decoder/decoder.go)       *)
(*   - OutputDiversityControl and its stages (src/unnamed/part_013)        *)
(*   - OutputSelection                      (src/unnamed/part_011)         *)
(*                                                                         *)
(* Numbers.  Logits are integers; NegInf stands for math.Inf(-1).          *)
(* Temperature and top-p are fractions kept in hundredths (100 is 1.0).    *)
(* Softmax is kept exact as integer weights over their sum: the weight of  *)
(* a logit v under maximum m is 2^(ExpRange - (m - v)), and 0 when v is    *)
(* NegInf or more than ExpRange below m (the exponential underflows).      *)
(***************************************************************************)
EXTENDS Integers, Sequences, FiniteSets, TLC

\* ---------------------------------------------------------------- bounds
VocabSize == 3
MaxLogit == 2
MaxLenBound == 3
MinLenBound == 2
NumLayers == 1
DrawGrid == 4
MaxDraws == 2
ExpRange == 6
Carrier == 3
MaxBlocks == 3
MaxSeqLen == 3
MaxGenerated == 1

NegInf == -1000000
\* a nil node, a nil State, options not yet built
Nil == << >>

Vocab == 0 .. (VocabSize - 1)
LogitVecs == [Vocab -> 0 .. MaxLogit]

\* ------------------------------------------------------- helper arithmetic
RECURSIVE Pow2(_)
Pow2(n) == IF n <= 0 THEN 1 ELSE 2 * Pow2(n - 1)

RECURSIVE SumOver(_, _)
SumOver(f, S) ==
    IF S = {} THEN 0
    ELSE LET e == CHOOSE e \in S : TRUE IN f[e] + SumOver(f, S \ {e})

\* mat.NewVecDense: a vector stored by value
NewVecDense(f) == f @@ << >>

MaxOf(scores) == CHOOSE m \in {scores[t] : t \in Vocab} : \A t \in Vocab : scores[t] <= m

\* mat.Matrix.Softmax: weights of exp(v - max), and their sum
SoftmaxWeights(scores) ==
    LET m == MaxOf(scores)
    IN  NewVecDense([t \in Vocab |->
            IF scores[t] = NegInf \/ m - scores[t] > ExpRange THEN 0
            ELSE Pow2(ExpRange - (m - scores[t]))])

SoftmaxTotal(scores) == SumOver(SoftmaxWeights(scores), Vocab)

\* mat.Matrix.ArgMax: the first index holding the maximum
ArgMax(w) == CHOOSE t \in Vocab :
                /\ \A u \in Vocab : w[u] <= w[t]
                /\ \A u \in Vocab : u < t => w[u] < w[t]

\* ------------------------------------------------ diversity control stages
\* a float64 that is not a number, and the ordered comparison of float64
\* values: false whenever one side is not a number
NaN == NegInf - 1
fLess(a, b) == a # NaN /\ b # NaN /\ a < b

\* OutputDiversityControl: the range checks that make construction fail
OutputDiversityControlErr(temp, topK, topP) ==
    \/ fLess(temp, 0) \/ fLess(100, temp)
    \/ topK < 0
    \/ fLess(topP, 0) \/ fLess(100, topP)

\* TemperatureFunc: scores.ProdScalar(1 / temperature)
TemperatureFunc(temperature, scores) ==
    IF temperature = 100 THEN scores
    ELSE NewVecDense([t \in Vocab |-> IF scores[t] = NegInf THEN NegInf
                                      ELSE scores[t] * (100 \div temperature)])

\* the indices of scores in descending order of value, ties in index order
\* (sort.Stable(sort.Reverse(...)) over an IndexedSlice): position -> index
SortedIndices(scores) ==
    LET before(u, t) == scores[u] > scores[t] \/ (scores[u] = scores[t] /\ u < t)
        rank(t) == 1 + Cardinality({u \in Vocab : before(u, t)})
    IN  NewVecDense([j \in 1 .. VocabSize |-> CHOOSE t \in Vocab : rank(t) = j])

\* TopKFunc popping from a min-heap (the heap not reversed): the topK lowest
\* scores are kept
TopKFuncMinHeap(topK, scores) ==
    LET k == IF VocabSize <= topK THEN VocabSize ELSE topK
        maxScore == scores[SortedIndices(scores)[VocabSize + 1 - k]]
    IN  NewVecDense([t \in Vocab |-> IF scores[t] > maxScore THEN NegInf ELSE scores[t]])

\* TopKFunc: pop topK-1 scores off the max-heap, the next one is minScore;
\* every score below minScore becomes filterValue
TopKFunc(topK, scores) ==
    LET k == IF VocabSize <= topK THEN VocabSize ELSE topK
        minScore == scores[SortedIndices(scores)[k]]
    IN  NewVecDense([t \in Vocab |-> IF scores[t] < minScore THEN NegInf ELSE scores[t]])

\* TopPFunc without the shift of indicesToRemove to the right: the first
\* token above the threshold is removed as well
TopPFuncNoShift(topP, scores) ==
    LET sorted == SortedIndices(scores)
        w == SoftmaxWeights(scores)
        total == SoftmaxTotal(scores)
        cum(j) == SumOver(w, {sorted[a] : a \in 1 .. j})
        toRemove(j) == IF j = 1 THEN FALSE ELSE cum(j) * 100 > topP * total
    IN  NewVecDense([t \in Vocab |->
            LET j == CHOOSE a \in 1 .. VocabSize : sorted[a] = t
            IN  IF toRemove(j) THEN NegInf ELSE scores[t]])

\* TopPFunc with minSize = 1
TopPFunc(topP, scores) ==
    LET sorted == SortedIndices(scores)
        w == SoftmaxWeights(scores)
        total == SoftmaxTotal(scores)
        cum(j) == SumOver(w, {sorted[a] : a \in 1 .. j})
        \* indicesToRemove[i] = cp > topP, before the shift
        over(j) == cum(j) * 100 > topP * total
        \* after the shift to the right, position 1 is always kept
        toRemove(j) == IF j = 1 THEN FALSE ELSE over(j - 1)
    IN  NewVecDense([t \in Vocab |->
            LET j == CHOOSE a \in 1 .. VocabSize : sorted[a] = t
            IN  IF toRemove(j) THEN NegInf ELSE scores[t]])

\* the function returned by OutputDiversityControl: the enabled stages in
\* the order temperature, top-k, top-p
ApplyOutputControl(temp, topK, topP, logits) ==
    LET afterTemp == IF temp # 100
                     THEN TemperatureFunc(IF temp = 0 THEN 1 ELSE temp, logits)
                     ELSE logits
        afterTopK == IF topK # 0 THEN TopKFunc(topK, afterTemp) ELSE afterTemp
    IN  IF topP # 100 THEN TopPFunc(topP, afterTopK) ELSE afterTopK

\* OutputDiversityControl with the top-p stage appended before the top-k stage
OutputDiversityControlTopPFirst(temp, topK, topP) ==
    (IF temp # 100 THEN << <<"temperature", IF temp = 0 THEN 1 ELSE temp>> >> ELSE << >>)
    \o (IF topP # 100 THEN << <<"topP", topP>> >> ELSE << >>)
    \o (IF topK # 0 THEN << <<"topK", topK>> >> ELSE << >>)

\* OutputDiversityControl: the slice `result` of stages, each with its
\* parameter; a temperature of 0 is replaced by 0.01
OutputDiversityControl(temp, topK, topP) ==
    (IF temp # 100 THEN << <<"temperature", IF temp = 0 THEN 1 ELSE temp>> >> ELSE << >>)
    \o (IF topK # 0 THEN << <<"topK", topK>> >> ELSE << >>)
    \o (IF topP # 100 THEN << <<"topP", topP>> >> ELSE << >>)

\* one stage p of `result` applied to the scores
applyStage(p, scores) ==
    IF p[1] = "temperature" THEN TemperatureFunc(p[2], scores)
    ELSE IF p[1] = "topK" THEN TopKFunc(p[2], scores)
    ELSE TopPFunc(p[2], scores)

\* ------------------------------------------------------- output selection
\* GreedyDecoding
GreedyDecoding(candidates) == ArgMax(SoftmaxWeights(candidates))

\* Softmax as the sampler reads it: each probability is a float, held here to
\* the resolution 1 / DrawGrid of the uniform draw (float64 holds both to
\* 2^-53) and rounded to the nearest step, so the probabilities need not sum
\* to one
SoftmaxRounded(candidates) ==
    LET w == SoftmaxWeights(candidates)
        total == SoftmaxTotal(candidates)
    IN  [t \in Vocab |-> (2 * DrawGrid * w[t] + total) \div (2 * total)]

\* multinomial, one pass of `for i, value := range data` with p = u / DrawGrid:
\* the first index at which p drops below zero, or -1 when the scan ends
\* with no sample appended
multinomialScan(probs, u) ==
    IF \E t \in Vocab : u < SumOver(probs, 0 .. t)
    THEN CHOOSE t \in Vocab : u < SumOver(probs, 0 .. t)
                              /\ \A v \in Vocab : v < t => ~(u < SumOver(probs, 0 .. v))
    ELSE -1

\* MultinomialSampling with the uniform draw u / DrawGrid: the sample of the
\* draw, or -1 when `for len(samples) < numSamples` has to draw again
Multinomial(candidates, u) == multinomialScan(SoftmaxRounded(candidates), u)

\* ------------------------------------------------------- decoder helpers
\* adjustLogits with the length test off by one
adjustLogitsLate(o, logits, sequenceLength) ==
    IF sequenceLength + 1 >= o.MinLen THEN logits
    ELSE [logits EXCEPT ![o.EndTokenID] = NegInf]

\* Decoder.adjustLogits: below MinLen the end token's logit becomes -inf
adjustLogits(o, logits, sequenceLength) ==
    IF sequenceLength >= o.MinLen THEN logits
    ELSE [logits EXCEPT ![o.EndTokenID] = NegInf]

\* hasStopSequence: some stop sequence equals the tail of its own length
hasStopSequence(sequence, stopSequences) ==
    \E n \in 1 .. Len(stopSequences) :
        LET stopSeq == stopSequences[n]
        IN  /\ Len(sequence) >= Len(stopSeq)
            /\ stopSeq = SubSeq(sequence, Len(sequence) - Len(stopSeq) + 1, Len(sequence))

\* checkStopConditions without the stop sequences
checkStopConditionsNoStopSeq(o, sequence) ==
    IF Len(sequence) >= o.MaxLen THEN TRUE
    ELSE sequence[Len(sequence)] = o.EndTokenID

\* checkStopConditions matching stop sequences below MinLen too
checkStopConditionsNoMinLen(o, sequence) ==
    IF Len(sequence) >= o.MaxLen THEN TRUE
    ELSE IF sequence[Len(sequence)] = o.EndTokenID THEN TRUE
    ELSE hasStopSequence(sequence, o.StopSequencesIDs)

\* Decoder.checkStopConditions
checkStopConditions(o, sequence) ==
    IF Len(sequence) >= o.MaxLen THEN TRUE
    ELSE IF sequence[Len(sequence)] = o.EndTokenID THEN TRUE
    ELSE IF Len(sequence) >= o.MinLen /\ hasStopSequence(sequence, o.StopSequencesIDs) THEN TRUE
    ELSE FALSE

\* the closure checkWriteConditions of GenerateTokens
checkWriteConditions(o, tokenID) == ~(tokenID = o.EndTokenID /\ o.SkipEndTokenID)

\* grpcToDecodingOptions: the request's stop sequences are not copied
grpcToDecodingOptions(dp) ==
    [MaxLen |-> dp.MaxLen, MinLen |-> dp.MinLen, StopSequencesIDs |-> << >>,
     EndTokenID |-> dp.EndTokenID, SkipEndTokenID |-> dp.SkipEndTokenID,
     Temp |-> dp.Temp, TopK |-> dp.TopK, TopP |-> dp.TopP,
     UseSampling |-> dp.UseSampling]

\* Decoder.generateToken after Predict: the token selected from the logits
\* of one step, with the uniform draw u of the sampler
selectToken(o, logits, seqLen, u) ==
    LET candidates == ApplyOutputControl(o.Temp, o.TopK, o.TopP,
                                         adjustLogits(o, logits, seqLen))
    IN  IF o.UseSampling THEN Multinomial(candidates, u)
        ELSE GreedyDecoding(candidates)

EndChoices == {0, VocabSize - 1}

\* temperature, top-k, top-p: the no-op setting, two with stages enabled,
\* and one value out of range for each parameter
DiversityChoices ==
    { <<100, 0, 100>>, <<50, 2, 50>>, <<0, 1, 100>>,
      <<150, 0, 100>>, <<100, -1, 100>>, <<100, 0, 110>> }

\* the options and the length generated so far that a generateToken call
\* depends on
StepKeys ==
    {c \in DiversityChoices : ~OutputDiversityControlErr(c[1], c[2], c[3])}
        \X BOOLEAN \X EndChoices \X (0 .. MinLenBound) \X (0 .. MaxLenBound)

stepKey(o, n) == <<<<o.Temp, o.TopK, o.TopP>>, o.UseSampling, o.EndTokenID, o.MinLen, n>>

\* what one generateToken call can return: every token that some logits
\* vector of Predict and some draw of the sampler select, with the note
\* whether the end token's predicted logit was the strict maximum below MinLen;
\* the sampler draws until a draw yields a sample
generateToken ==
    [k \in StepKeys |->
        { r \in
          { [tokenID |-> selectToken([Temp |-> k[1][1], TopK |-> k[1][2], TopP |-> k[1][3],
                                      UseSampling |-> k[2], EndTokenID |-> k[3],
                                      MinLen |-> k[4]], logits, k[5], u),
             endMax |-> (k[5] < k[4] /\ \A t \in Vocab \ {k[3]} : logits[t] < logits[k[3]])] :
               logits \in LogitVecs,
               u \in IF k[2] THEN 0 .. (DrawGrid - 1) ELSE {0} } : r.tokenID # -1 }]
    @@ << >>

\* ------------------------------------------------------ computation nodes
Fields == {"FfnXX", "AttXX", "AttAA", "AttBB", "AttPP"}
Layers == 1 .. NumLayers

\* the State written by the forward pass of step n (0 is the prefill):
\* every layer state holds the five nodes of that pass
stateAfter(n) == [l \in Layers |-> [f \in Fields |-> <<"state", n, l, f>>]]

\* the hidden output of the forward pass of step n, and the logits node
\* Predict builds in step n
hiddenNode(n) == <<"x", n, 0, "x">>
logitsNode(n) == <<"logits", n, 0, "logits">>

\* extractNodesToRelease
extractNodesToRelease(xn, st) ==
    {xn} \cup {st[l][f] : l \in Layers, f \in Fields}

\* ------------------------------------------------------------------ state
VARIABLES
    caller,     \* who drives the request: the gRPC handler or a library caller
    req,        \* the decoding parameters of the request
    opts,       \* DecodingOptions of the Decoder
    ctxDone,    \* the request context is cancelled
    pc,         \* position of the goroutine that runs Generate / Decode
    input,      \* encoder.Result handed to Decode
    x, s,       \* Decode: current hidden node and State
    i,          \* Decode: loop counter
    sequence,   \* Decode: tokens generated so far
    nt,         \* Decode: nodes registered in the NodesTracker
    fedBack,    \* history: the tokens Decoder.encode fed back to the model
    created,    \* every computation node built for the request
    released,   \* nodes released so far
    chGen,      \* token channel: [buf, cap, closed]
    genErr,     \* value returned by Generate / Decode
    hpc,        \* position of the consumer (the GenerateTokens handler)
    streamOut,  \* tokens the handler sent on the gRPC stream
    hret,       \* value returned by the handler
    sent,       \* history: every token sent on chGen, in order
    atCancel,   \* history: Len(sent) when the context was cancelled, else -1
    exitPath,   \* history: how Generate / Decode returned
    ctl,        \* one use of the diversity pipeline and the output selection
    fwd,        \* one comparison of the two forward modes of the RWKV model
    cnv,        \* runs of the converter on one model directory
    dl,         \* calls of Download on one model directory
    gb,         \* one Dump of a model and one load of the file it wrote
    ld,         \* one call of Load on a model directory
    ui          \* one websocket connection served by UIServer.ServeHTTP

\* the state of a request
reqVars == <<caller, req, opts, ctxDone, pc, input, x, s, i, sequence, nt, fedBack, created,
             released, chGen, genErr, hpc, streamOut, hret, sent, atCancel, exitPath>>

\* the state of the units exercised on their own
unitVars == <<ctl, fwd, cnv, dl, gb, ld, ui>>

\* the units that read and write files and sockets
ioVars == <<dl, gb, ld, ui>>

vars == <<reqVars, unitVars>>

decVars == <<x, s, i, sequence, nt, fedBack>>
consVars == <<hpc, streamOut, hret>>

\* ------------------------------------------------------- request choices
StopChoices == { << >>, << <<1, 2>> >>, << <<2>>, <<1, 1>> >> }
request(ml, mn, st, e, sk, d, us) ==
    [MaxLen |-> ml, MinLen |-> mn, StopSequencesIDs |-> st, EndTokenID |-> e,
     SkipEndTokenID |-> sk, Temp |-> d[1], TopK |-> d[2], TopP |-> d[3],
     UseSampling |-> us]

\* requests that vary the lengths, the stop sequences and the end token
\* under the default pipeline, and requests that vary the pipeline and the
\* selection mode
Requests ==
    { request(ml, mn, st, e, sk, <<100, 0, 100>>, FALSE) :
         ml \in 0 .. MaxLenBound, mn \in 0 .. MinLenBound, st \in StopChoices,
         e \in EndChoices, sk \in BOOLEAN }
    \cup
    { request(MaxLenBound, mn, << >>, e, FALSE, d, us) :
         mn \in 0 .. MinLenBound, e \in EndChoices, d \in DiversityChoices,
         us \in BOOLEAN }

\* the requests sent over gRPC: the handler's conversion drops the stop
\* sequences, so they vary only for the longest request without MinLen
GrpcRequests ==
    { r \in Requests : \/ r.StopSequencesIDs = << >>
                       \/ (r.MaxLen = MaxLenBound /\ r.MinLen = 0 /\ ~r.SkipEndTokenID) }

\* no request has started
requestIdle ==
    /\ opts = Nil
    /\ ctxDone = FALSE
    /\ pc = "idle"
    /\ input = [Encoding |-> Nil, State |-> Nil]
    /\ x = Nil /\ s = Nil /\ i = 0
    /\ sequence = << >> /\ fedBack = << >>
    /\ nt = {} /\ created = {} /\ released = {}
    /\ chGen = [buf |-> << >>, cap |-> 0, closed |-> 0]
    /\ genErr = "none"
    /\ hpc = "start"
    /\ streamOut = << >>
    /\ hret = "none"
    /\ sent = << >>
    /\ atCancel = -1
    /\ exitPath = "none"

Init ==
    /\ caller \in {"grpc", "lib"}
    /\ req \in (IF caller = "grpc" THEN GrpcRequests ELSE Requests)
    /\ requestIdle
    /\ ctl = Nil /\ fwd = Nil /\ cnv = Nil
    /\ dl = Nil /\ gb = Nil /\ ld = Nil /\ ui = Nil

\* ------------------------------------------------------------- the callers
\* GenerateTokens up to the start of the range loop: the options, the two
\* channels and the goroutine that runs Generate
GenerateTokens ==
    /\ caller = "grpc" /\ hpc = "start"
    /\ opts' = grpcToDecodingOptions(req)
    /\ chGen' = [buf |-> << >>, cap |-> opts'.MaxLen, closed |-> 0]
    /\ pc' = "generate"
    /\ hpc' = "range"
    /\ UNCHANGED <<unitVars, caller, req, ctxDone, input, decVars, created, released, genErr,
                   streamOut, hret, sent, atCancel, exitPath>>

\* a library caller: Generate on an unbuffered channel, or decoder.New and
\* Decode on an encoder.Result that lacks the encoding or the state
LibraryCall ==
    /\ caller = "lib" /\ hpc = "start"
    /\ opts' = req
    /\ chGen' = [buf |-> << >>, cap |-> 0, closed |-> 0]
    /\ hpc' = "range"
    /\ \/ /\ pc' = "generate"
          /\ UNCHANGED <<input, created>>
       \/ /\ ~OutputDiversityControlErr(req.Temp, req.TopK, req.TopP)
          /\ pc' = "new"
          /\ \/ /\ input' = [Encoding |-> Nil, State |-> stateAfter(0)]
                /\ created' = extractNodesToRelease(hiddenNode(0), stateAfter(0)) \ {hiddenNode(0)}
             \/ /\ input' = [Encoding |-> hiddenNode(0), State |-> Nil]
                /\ created' = {hiddenNode(0)}
    /\ UNCHANGED <<unitVars, caller, req, ctxDone, decVars, released, genErr,
                   streamOut, hret, sent, atCancel, exitPath>>

\* the context of the request is cancelled
Cancel ==
    /\ ~ctxDone
    /\ pc \in {"generate", "new", "decode", "loop", "send", "check", "encode"}
    /\ ctxDone' = TRUE
    /\ atCancel' = Len(sent)
    /\ UNCHANGED <<unitVars, caller, req, opts, pc, input, decVars, created, released, chGen,
                   genErr, consVars, sent, exitPath>>

\* ---------------------------------------------------------------- Generate
\* Generate: Tokenize and the sequence-mode prefill of encoder.Encode
GenerateEncode ==
    /\ pc = "generate"
    /\ input' = [Encoding |-> hiddenNode(0), State |-> stateAfter(0)]
    /\ created' = created \cup extractNodesToRelease(hiddenNode(0), stateAfter(0))
    /\ pc' = "new"
    /\ UNCHANGED <<unitVars, caller, req, opts, ctxDone, decVars, released, chGen, genErr,
                   consVars, sent, atCancel, exitPath>>

\* decoder.New: the error of OutputDiversityControl is returned by Generate
\* at once; the token channel is left as it is
DecoderNew ==
    /\ pc = "new"
    /\ IF OutputDiversityControlErr(opts.Temp, opts.TopK, opts.TopP)
       THEN /\ genErr' = "config"
            /\ exitPath' = "config"
            /\ pc' = "returned"
       ELSE /\ pc' = "decode"
            /\ UNCHANGED <<genErr, exitPath>>
    /\ UNCHANGED <<unitVars, caller, req, opts, ctxDone, input, decVars, created, released,
                   chGen, consVars, sent, atCancel>>

\* ------------------------------------------------------------------ Decode
\* a return out of the loop that leaves the channel open
deferredReturnNoClose(err, path) ==
    /\ released' = released \cup nt
    /\ chGen' = chGen
    /\ genErr' = err
    /\ exitPath' = path
    /\ pc' = "returned"

\* the deferred calls of Decode on a return out of the loop:
\* nt.ReleaseNodes(), then close(chGen)
deferredReturn(err, path) ==
    /\ released' = released \cup nt
    /\ chGen' = [chGen EXCEPT !.closed = @ + 1]
    /\ genErr' = err
    /\ exitPath' = path
    /\ pc' = "returned"

\* Decode on an input without encoding or state returning nil
DecodeInvalidInputNilError ==
    /\ pc = "decode"
    /\ input.Encoding = Nil \/ input.State = Nil
    /\ chGen' = [chGen EXCEPT !.closed = @ + 1]
    /\ genErr' = "nil"
    /\ exitPath' = "invalid"
    /\ pc' = "returned"
    /\ UNCHANGED <<unitVars, caller, req, opts, ctxDone, input, decVars, created, released,
                   consVars, sent, atCancel>>

\* Decode on an input without encoding or state: the error return, with
\* only close(chGen) deferred so far
DecodeInvalidInput ==
    /\ pc = "decode"
    /\ input.Encoding = Nil \/ input.State = Nil
    /\ chGen' = [chGen EXCEPT !.closed = @ + 1]
    /\ genErr' = "invalid input"
    /\ exitPath' = "invalid"
    /\ pc' = "returned"
    /\ UNCHANGED <<unitVars, caller, req, opts, ctxDone, input, decVars, created, released,
                   consVars, sent, atCancel>>

\* Decode up to the loop: the tracker, x and s
DecodeEnter ==
    /\ pc = "decode"
    /\ input.Encoding # Nil /\ input.State # Nil
    /\ nt' = {}
    /\ x' = input.Encoding
    /\ s' = input.State
    /\ sequence' = << >>
    /\ i' = 0
    /\ fedBack' = << >>
    /\ pc' = "loop"
    /\ UNCHANGED <<unitVars, caller, req, opts, ctxDone, input, created, released, chGen, genErr,
                   consVars, sent, atCancel, exitPath>>

\* a cancelled step that returns ctx.Err() instead of nil
LoopCancelledWithErr ==
    /\ pc = "loop"
    /\ ctxDone
    /\ deferredReturn("context canceled", "cancel")
    /\ UNCHANGED <<unitVars, caller, req, opts, ctxDone, input, decVars, created,
                   consVars, sent, atCancel>>

\* top of a step, case <-ctx.Done(): break Loop and return nil
LoopCancelled ==
    /\ pc = "loop"
    /\ ctxDone
    /\ deferredReturn("nil", "cancel")
    /\ UNCHANGED <<unitVars, caller, req, opts, ctxDone, input, decVars, created,
                   consVars, sent, atCancel>>

\* a step that generates without looking at the context
LoopGenerateIgnoringCtx ==
    /\ pc = "loop"
    /\ \E r \in generateToken[stepKey(opts, i)] :
          sequence' = Append(sequence, r.tokenID)
    /\ created' = created \cup {logitsNode(i)}
    /\ nt' = nt \cup {logitsNode(i)}
    /\ pc' = "send"
    /\ UNCHANGED <<unitVars, caller, req, opts, ctxDone, input, x, s, i, fedBack, released, chGen, genErr,
                   consVars, sent, atCancel, exitPath>>

\* top of a step, default: generateToken and the append to sequence
LoopGenerate ==
    /\ pc = "loop"
    /\ ~ctxDone
    /\ \E r \in generateToken[stepKey(opts, i)] :
          sequence' = Append(sequence, r.tokenID)
    /\ created' = created \cup {logitsNode(i)}
    /\ nt' = nt \cup {logitsNode(i)}
    /\ pc' = "send"
    /\ UNCHANGED <<unitVars, caller, req, opts, ctxDone, input, x, s, i, fedBack, released, chGen, genErr,
                   consVars, sent, atCancel, exitPath>>

\* chGen <- GeneratedToken{...} on a channel with room in its buffer
Send ==
    /\ pc = "send"
    /\ Len(chGen.buf) < chGen.cap
    /\ chGen' = [chGen EXCEPT !.buf = Append(@, sequence[Len(sequence)])]
    /\ sent' = Append(sent, sequence[Len(sequence)])
    /\ pc' = "check"
    /\ UNCHANGED <<unitVars, caller, req, opts, ctxDone, input, decVars, created, released,
                   genErr, consVars, atCancel, exitPath>>

\* checkStopConditions: break Loop and return nil, or go on to encode
CheckStop ==
    /\ pc = "check"
    /\ IF checkStopConditions(opts, sequence)
       THEN deferredReturn("nil", "stop")
       ELSE /\ pc' = "encode"
            /\ UNCHANGED <<released, chGen, genErr, exitPath>>
    /\ UNCHANGED <<unitVars, caller, req, opts, ctxDone, input, decVars, created,
                   consVars, sent, atCancel>>

\* an encode step that feeds back the first generated token, not the last
EncodeFirstToken ==
    /\ pc = "encode"
    /\ x' = hiddenNode(i + 1)
    /\ s' = stateAfter(i + 1)
    /\ created' = created \cup extractNodesToRelease(x', s')
    /\ nt' = nt \cup extractNodesToRelease(x', s')
    /\ fedBack' = Append(fedBack, sequence[1])
    /\ i' = i + 1
    /\ pc' = "loop"
    /\ UNCHANGED <<unitVars, caller, req, opts, ctxDone, input, sequence, released, chGen, genErr,
                   consVars, sent, atCancel, exitPath>>

\* Decoder.encode: the single-step forward of the chosen token writes the
\* State in place; the new x and the new state nodes are tracked
Encode ==
    /\ pc = "encode"
    /\ x' = hiddenNode(i + 1)
    /\ s' = stateAfter(i + 1)
    /\ created' = created \cup extractNodesToRelease(x', s')
    /\ nt' = nt \cup extractNodesToRelease(x', s')
    /\ fedBack' = Append(fedBack, sequence[Len(sequence)])
    /\ i' = i + 1
    /\ pc' = "loop"
    /\ UNCHANGED <<unitVars, caller, req, opts, ctxDone, input, sequence, released, chGen, genErr,
                   consVars, sent, atCancel, exitPath>>

\* ------------------------------------------------------------ the consumer
\* the handler returns err: gRPC cancels the context of the stream
handlerReturn(err, nSent) ==
    /\ hret' = err
    /\ hpc' = "returned"
    /\ ctxDone' = TRUE
    /\ atCancel' = IF ctxDone THEN atCancel ELSE nSent

\* one pass through the body of `for gen := range chGen`; a library
\* consumer only collects the token
rangeBody(tokenID, nSent) ==
    IF caller = "grpc" /\ ~checkWriteConditions(opts, tokenID)
    THEN UNCHANGED <<hpc, streamOut, hret, ctxDone, atCancel>>
    ELSE \/ /\ streamOut' = Append(streamOut, tokenID)
            /\ UNCHANGED <<hpc, hret, ctxDone, atCancel>>
         \/ /\ caller = "grpc"
            /\ \E err \in {"reconstruct error", "send error"} : handlerReturn(err, nSent)
            /\ UNCHANGED streamOut

\* the range loop takes the next token out of the buffer
Receive ==
    /\ hpc = "range"
    /\ chGen.buf # << >>
    /\ chGen' = [chGen EXCEPT !.buf = Tail(@)]
    /\ rangeBody(Head(chGen.buf), Len(sent))
    /\ UNCHANGED <<unitVars, caller, req, opts, pc, input, decVars, created, released, genErr,
                   sent, exitPath>>

\* chGen <- GeneratedToken{...} on an unbuffered channel meets the receive
\* of the range loop
SendReceive ==
    /\ pc = "send"
    /\ chGen.cap = 0
    /\ hpc = "range"
    /\ sent' = Append(sent, sequence[Len(sequence)])
    /\ pc' = "check"
    /\ rangeBody(sequence[Len(sequence)], Len(sent) + 1)
    /\ UNCHANGED <<unitVars, caller, req, opts, input, decVars, created, released, chGen, genErr,
                   exitPath>>

\* the range loop ends on the closed and drained channel
RangeEnd ==
    /\ hpc = "range"
    /\ chGen.buf = << >>
    /\ chGen.closed > 0
    /\ IF caller = "grpc"
       THEN /\ hpc' = "recvErr"
            /\ UNCHANGED <<hret, ctxDone, atCancel>>
       ELSE handlerReturn("drained", Len(sent))
    /\ UNCHANGED <<unitVars, caller, req, opts, pc, input, decVars, created, released, chGen,
                   genErr, streamOut, sent, exitPath>>

\* errCh <- Generate(...) in the goroutine meets err := <-errCh in the handler
ReceiveErr ==
    /\ caller = "grpc"
    /\ pc = "returned"
    /\ hpc = "recvErr"
    /\ pc' = "done"
    /\ handlerReturn(genErr, Len(sent))
    /\ UNCHANGED <<unitVars, caller, req, opts, input, decVars, created, released, chGen, genErr,
                   streamOut, sent, exitPath>>

\* ------------------------------------------------------------ specification
Next ==
    \/ GenerateTokens
    \/ LibraryCall
    \/ Cancel
    \/ GenerateEncode
    \/ DecoderNew
    \/ DecodeInvalidInput
    \/ DecodeEnter
    \/ LoopCancelled
    \/ LoopGenerate
    \/ Send
    \/ SendReceive
    \/ CheckStop
    \/ Encode
    \/ Receive
    \/ RangeEnd
    \/ ReceiveErr

Spec == Init /\ [][Next]_vars

\* ======================================================= the RWKV forward
\* The tensors have DModel = 1 and their float operations are interpreted
\* over the residues modulo Carrier: each operation of the code is one fixed
\* function, applied to the same operands in the same order as in the code.
Val == 0 .. (Carrier - 1)

Add(a, b) == (a + b) % Carrier
Sub(a, b) == (a + Carrier - b) % Carrier
Prod(a, b) == (a * b) % Carrier
Mul(w, a) == (w * a) % Carrier
ReverseSubOne(a) == (1 + Carrier - a) % Carrier
Max(a, b) == IF a >= b THEN a ELSE b
Exp(a) == (2 * a + 1) % Carrier
Div(a, b) == (a + 2 * b + 1) % Carrier
Sigmoid(a) == (a + 1) % Carrier
ReLU(a) == IF 2 * a < Carrier THEN a ELSE 0
Square(a) == (a * a) % Carrier
ProdScalarHalf(a) == (2 * a + 2) % Carrier

\* the parameters of block l (1-based) after conversion, by name
paramNames == <<"Key", "Value", "Receptance", "Output", "TimeDecay", "TimeFirst",
                "TimeMixK", "TimeMixV", "TimeMixR", "FfnKey", "FfnValue",
                "FfnReceptance", "FfnTimeMixK", "FfnTimeMixR", "W", "B">>
paramIndex ==
    NewVecDense([name \in {paramNames[a] : a \in 1 .. Len(paramNames)} |->
                    CHOOSE a \in 1 .. Len(paramNames) : paramNames[a] = name])
param(name, l) == (paramIndex[name] * l + paramIndex[name] + l) % Carrier

\* a node of the computation: v is computed once and F applied to its value
node(v, F(_)) == CHOOSE r \in {F(w) : w \in {v}} : TRUE

\* layernorm.Model.Forward of one element with the parameters of ln
LayerNorm(ln, l, a) == Add(Prod(Add(a, ln), param("W", l)), param("B", l))

\* NewState: NumLayers layer states of five vectors, AttPP filled with -1e30
NewState(numLayers) ==
    [l \in 1 .. numLayers |->
        [f \in Fields |-> IF f = "AttPP" THEN Carrier - 1 ELSE 0]]

\* TimeMix.ForwardSingle on the layer state st: [out, st]
TimeMixForwardSingle(l, a, st) ==
    LET xx == st.AttXX
        aa == st.AttAA
        bb == st.AttBB
        pp == st.AttPP
        xk == Add(Prod(param("TimeMixK", l), a), Prod(ReverseSubOne(param("TimeMixK", l)), xx))
        xv == Add(Prod(param("TimeMixV", l), a), Prod(ReverseSubOne(param("TimeMixV", l)), xx))
        xr == Add(Prod(param("TimeMixR", l), a), Prod(ReverseSubOne(param("TimeMixR", l)), xx))
        k == Mul(param("Key", l), xk)
        v == Mul(param("Value", l), xv)
        r == Sigmoid(Mul(param("Receptance", l), xr))
        ww == Add(k, param("TimeFirst", l))
        p == Max(pp, ww)
        e1 == Exp(Sub(pp, p))
        e2 == Exp(Sub(ww, p))
        a1 == Add(Prod(e1, aa), Prod(e2, v))
        b1 == Add(Prod(e1, bb), e2)
        rwkv == Prod(r, Div(a1, b1))
        ww2 == Add(pp, param("TimeDecay", l))
        p2 == Max(ww2, k)
        e12 == Exp(Sub(ww2, p2))
        e22 == Exp(Sub(k, p2))
    IN  [out |-> Mul(param("Output", l), rwkv),
         st |-> [st EXCEPT !.AttXX = a,
                           !.AttAA = Add(Prod(e12, aa), Prod(e22, v)),
                           !.AttBB = Add(Prod(e12, bb), e22),
                           !.AttPP = p2]]

\* ChannelMix.ForwardSingle on the layer state st: [out, st]
ChannelMixForwardSingle(l, a, st) ==
    LET xx == st.FfnXX
        xk == Add(Prod(a, param("FfnTimeMixK", l)),
                  Prod(ReverseSubOne(param("FfnTimeMixK", l)), xx))
        xr == Add(Prod(a, param("FfnTimeMixR", l)),
                  Prod(ReverseSubOne(param("FfnTimeMixR", l)), xx))
        k == Square(ReLU(Mul(param("FfnKey", l), xk)))
        kv == Mul(param("FfnValue", l), k)
        r == Sigmoid(Mul(param("FfnReceptance", l), xr))
    IN  [out |-> Prod(r, kv), st |-> [st EXCEPT !.FfnXX = a]]

\* Layer.ForwardSingle; LN0 is set in the first block only
LayerForwardSingle(l, a, st) ==
    node(IF l = 1 THEN LayerNorm(0, l, a) ELSE a, LAMBDA x0 :
    node(TimeMixForwardSingle(l, LayerNorm(1, l, x0), st), LAMBDA tm :
    node(Add(x0, tm.out), LAMBDA x1 :
    node(ChannelMixForwardSingle(l, LayerNorm(2, l, x1), tm.st), LAMBDA cm :
        [out |-> Add(x1, cm.out), st |-> cm.st]))))

\* singleStepAttention: [wkv, aa, bb, pp]
singleStepAttention(l, aa, bb, pp, ki, vi) ==
    LET ww == Add(ki, param("TimeFirst", l))
        p == Max(pp, ww)
        e1 == Exp(Sub(pp, p))
        e2 == Exp(Sub(ww, p))
        a1 == Add(Prod(e1, aa), Prod(e2, vi))
        b1 == Add(Prod(e1, bb), e2)
        ww2 == Add(pp, param("TimeDecay", l))
        p2 == Max(ww2, ki)
        e12 == Exp(Sub(ww2, p2))
        e22 == Exp(Sub(ki, p2))
    IN  [wkv |-> Div(a1, b1),
         aa |-> Add(Prod(e12, aa), Prod(e22, vi)),
         bb |-> Add(Prod(e12, bb), e22),
         pp |-> Max(ww2, ki)]

\* updateAttentionScores from element n on: [wkv, aa, bb, pp]
RECURSIVE updateAttentionScores(_, _, _, _, _, _, _, _)
updateAttentionScores(l, aa, bb, pp, k, v, n, wkv) ==
    IF n > Len(k) THEN [wkv |-> wkv, aa |-> aa, bb |-> bb, pp |-> pp]
    ELSE node(singleStepAttention(l, aa, bb, pp, k[n], v[n]), LAMBDA r :
             updateAttentionScores(l, r.aa, r.bb, r.pp, k, v, n + 1, Append(wkv, r.wkv)))

\* a sequence shifted against the carried element at every position
tokenShiftCarriedOnly(carried, xs) == [j \in 1 .. Len(xs) |-> carried]

\* the token shift of the sequence mode: the carried element, then x[:len(x)-1]
tokenShift(carried, xs) == <<carried>> \o SubSeq(xs, 1, Len(xs) - 1)

\* TimeMix.ForwardSequence with updateState: [out, st]
TimeMixForwardSequence(l, xs, st) ==
    LET n == Len(xs)
        xx == tokenShift(st.AttXX, xs)
        xk == [j \in 1 .. n |-> Add(Prod(param("TimeMixK", l), xs[j]),
                                    Prod(ReverseSubOne(param("TimeMixK", l)), xx[j]))]
        xv == [j \in 1 .. n |-> Add(Prod(param("TimeMixV", l), xs[j]),
                                    Prod(ReverseSubOne(param("TimeMixV", l)), xx[j]))]
        xr == [j \in 1 .. n |-> Add(Prod(param("TimeMixR", l), xs[j]),
                                    Prod(ReverseSubOne(param("TimeMixR", l)), xx[j]))]
        r == [j \in 1 .. n |-> Sigmoid(Mul(param("Receptance", l), xr[j]))]
    IN  node(NewVecDense([j \in 1 .. n |-> Mul(param("Key", l), xk[j])]), LAMBDA k :
        node(NewVecDense([j \in 1 .. n |-> Mul(param("Value", l), xv[j])]), LAMBDA v :
        node(updateAttentionScores(l, st.AttAA, st.AttBB, st.AttPP, k, v, 1, << >>), LAMBDA att :
            [out |-> NewVecDense([j \in 1 .. n |->
                         Mul(param("Output", l), Prod(r[j], att.wkv[j]))]),
             st |-> [st EXCEPT !.AttXX = xs[n], !.AttAA = att.aa,
                               !.AttBB = att.bb, !.AttPP = att.pp]])))

\* ChannelMix.ForwardSequence: [out, st]
ChannelMixForwardSequence(l, xs, st) ==
    LET n == Len(xs)
        xx == tokenShift(st.FfnXX, xs)
        xk == [j \in 1 .. n |-> Add(Prod(param("FfnTimeMixK", l), xs[j]),
                                    Prod(ReverseSubOne(param("FfnTimeMixK", l)), xx[j]))]
        xr == [j \in 1 .. n |-> Add(Prod(param("FfnTimeMixR", l), xs[j]),
                                    Prod(ReverseSubOne(param("FfnTimeMixR", l)), xx[j]))]
        k == [j \in 1 .. n |-> Square(ReLU(Mul(param("FfnKey", l), xk[j])))]
        kv == [j \in 1 .. n |-> Mul(param("FfnValue", l), k[j])]
        r == [j \in 1 .. n |-> Sigmoid(Mul(param("FfnReceptance", l), xr[j]))]
    IN  [out |-> NewVecDense([j \in 1 .. n |-> Prod(r[j], kv[j])]),
         st |-> [st EXCEPT !.FfnXX = xs[n]]]

\* Layer.ForwardSequence
LayerForwardSequence(l, xs, st) ==
    LET n == Len(xs)
    IN  node(NewVecDense([j \in 1 .. n |-> IF l = 1 THEN LayerNorm(0, l, xs[j]) ELSE xs[j]]),
             LAMBDA x0 :
        node(NewVecDense([j \in 1 .. n |-> LayerNorm(1, l, x0[j])]), LAMBDA ln1 :
        node(TimeMixForwardSequence(l, ln1, st), LAMBDA tm :
        node(NewVecDense([j \in 1 .. n |-> Add(x0[j], tm.out[j])]), LAMBDA x1 :
        node(NewVecDense([j \in 1 .. n |-> LayerNorm(2, l, x1[j])]), LAMBDA ln2 :
        node(ChannelMixForwardSequence(l, ln2, tm.st), LAMBDA cm :
            [out |-> NewVecDense([j \in 1 .. n |-> Add(x1[j], cm.out[j])]),
             st |-> cm.st]))))))

\* the loop of Model.ForwardSingle with a State that grows by one layer
\* state per block run
RECURSIVE LayersSingleAppending(_, _, _, _, _, _)
LayersSingleAppending(c, id, a, state, halved, before) ==
    IF id >= c.NumLayers THEN [x |-> a, state |-> state, before |-> before]
    ELSE LET rescale == (id + 1) % c.RescaleLayer = 0
         IN  node(LayerForwardSingle(id + 1, a, state[id + 1]), LAMBDA r :
             node(Append(state, r.st), LAMBDA next :
                 LayersSingleAppending(c, id + 1,
                     IF rescale THEN ProdScalarHalf(r.out) ELSE r.out,
                     next,
                     IF rescale THEN halved + 1 ELSE halved,
                     Append(before, halved))))

\* the loop of Model.ForwardSingle from block id (0-based) on: the output,
\* the state, and for each block the number of halvings applied before it ran
RECURSIVE LayersSingle(_, _, _, _, _, _)
LayersSingle(c, id, a, state, halved, before) ==
    IF id >= c.NumLayers THEN [x |-> a, state |-> state, before |-> before]
    ELSE LET rescale == (id + 1) % c.RescaleLayer = 0
         IN  node(LayerForwardSingle(id + 1, a, state[id + 1]), LAMBDA r :
             node([state EXCEPT ![id + 1] = r.st], LAMBDA next :
                 LayersSingle(c, id + 1,
                     IF rescale THEN ProdScalarHalf(r.out) ELSE r.out,
                     next,
                     IF rescale THEN halved + 1 ELSE halved,
                     Append(before, halved))))

\* Model.ForwardSingle
ForwardSingle(c, a, state) ==
    node(IF Len(state) = 0 THEN NewState(c.NumLayers) ELSE state, LAMBDA st :
        LayersSingle(c, 0, a, st, 0, << >>))

\* the loop of Model.ForwardSequence from block id (0-based) on
RECURSIVE LayersSequence(_, _, _, _, _, _)
LayersSequence(c, id, xs, state, halved, before) ==
    IF id >= c.NumLayers THEN [x |-> xs, state |-> state, before |-> before]
    ELSE LET rescale == (id + 1) % c.RescaleLayer = 0
         IN  node(LayerForwardSequence(id + 1, xs, state[id + 1]), LAMBDA r :
             node([state EXCEPT ![id + 1] = r.st], LAMBDA next :
             node(IF rescale
                  THEN NewVecDense([j \in 1 .. Len(xs) |-> ProdScalarHalf(r.out[j])])
                  ELSE r.out, LAMBDA out :
                 LayersSequence(c, id + 1, out, next,
                                IF rescale THEN halved + 1 ELSE halved,
                                Append(before, halved)))))

\* Model.ForwardSequence
ForwardSequence(c, xs, state) ==
    node(IF Len(state) = 0 THEN NewState(c.NumLayers) ELSE state, LAMBDA st :
        LayersSequence(c, 0, xs, st, 0, << >>))

\* a compensation that counts the block itself among the halved ones
outScaleCountingSelf(id, rescaleLayer) == Pow2((id + 1) \div rescaleLayer)

\* convChanMix / convTimeMix: outScale of block id
outScale(id, rescaleLayer) == Pow2(id \div rescaleLayer)

\* One model, one embedded token sequence and one starting State, run
\* through both modes on separate copies of the State: fwd holds the
\* configuration c, the tokens, the outputs sh, the State sstate and the
\* halvings sbefore of the single-step calls made so far, and the outputs
\* qh, the State qstate and the halvings qbefore of the sequence-mode call,
\* followed by gen single steps of generated tokens on qstate
TokenSeqs == UNION { [1 .. n -> Val] : n \in 1 .. MaxSeqLen }

\* no State (NewState is used), or a State carried over from earlier calls
StartStates(numLayers) ==
    { << >>,
      [l \in 1 .. numLayers |->
          [f \in Fields |-> (l + (CHOOSE n \in 1 .. 5 :
                                    <<"FfnXX", "AttXX", "AttAA", "AttBB", "AttPP">>[n] = f))
                            % Carrier]] }

InitForward ==
    /\ caller = "lib" /\ req = Nil
    /\ requestIdle
    /\ ctl = Nil /\ cnv = Nil
    /\ dl = Nil /\ gb = Nil /\ ld = Nil /\ ui = Nil
    /\ \E nl \in 1 .. MaxBlocks, r \in 1 .. MaxBlocks, toks \in TokenSeqs :
         \E st \in StartStates(nl) :
            fwd = [c |-> [NumLayers |-> nl, RescaleLayer |-> r],
                   tokens |-> toks,
                   sh |-> << >>, sstate |-> st, sbefore |-> << >>,
                   qh |-> << >>, qstate |-> st, qbefore |-> << >>, qdone |-> FALSE,
                   gen |-> 0]

\* one call of Model.ForwardSingle on the next token, threading the State
FwdSingle ==
    /\ fwd # Nil
    /\ Len(fwd.sh) < Len(fwd.tokens)
    /\ \E r \in {ForwardSingle(fwd.c, fwd.tokens[Len(fwd.sh) + 1], fwd.sstate)} :
           fwd' = [fwd EXCEPT !.sh = Append(@, r.x), !.sstate = r.state,
                              !.sbefore = r.before]
    /\ UNCHANGED <<reqVars, ctl, cnv, ioVars>>

\* one call of Model.ForwardSequence on the whole sequence
FwdSequence ==
    /\ fwd # Nil
    /\ ~fwd.qdone
    /\ \E r \in {ForwardSequence(fwd.c, fwd.tokens, fwd.qstate)} :
           fwd' = [fwd EXCEPT !.qh = r.x, !.qstate = r.state, !.qbefore = r.before,
                              !.qdone = TRUE]
    /\ UNCHANGED <<reqVars, ctl, cnv, ioVars>>

\* after the prompt: one single step on a generated token, as Decoder.encode
\* does through Model.Encode
FwdGenerate ==
    /\ fwd # Nil
    /\ fwd.qdone /\ Len(fwd.sh) = Len(fwd.tokens)
    /\ fwd.gen < MaxGenerated
    /\ \E tok \in Val :
          \E r \in {ForwardSingle(fwd.c, tok, fwd.qstate)} :
              fwd' = [fwd EXCEPT !.qstate = r.state, !.gen = @ + 1]
    /\ UNCHANGED <<reqVars, ctl, cnv, ioVars>>

NextForward ==
    \/ FwdSingle
    \/ FwdSequence
    \/ FwdGenerate

SpecForward == InitForward /\ [][NextForward]_vars

\* ==================================================== the diversity pipeline
\* OutputDiversityControl, the function it returns and the output selection,
\* exercised on their own: ctl holds the arguments, the returned function
\* dc with its slice `result`, the scores before (prev) and after (cur) the
\* stage applied last, the number of stages applied, the error and the
\* selected token
TempChoices == {NaN, -1, 0, 50, 100, 101}
TopKChoices == -1 .. (VocabSize + 1)
TopPChoices == {NaN, -1, 0, 40, 70, 100, 101}

isNumber(v) == v # NaN

\* every parameter triple on one logits vector, and every logits vector and
\* selection mode on the triples of numbers that pass the range checks
ControlInputs ==
    { c \in TempChoices \X TopKChoices \X TopPChoices \X LogitVecs \X BOOLEAN :
        \/ (\A t \in Vocab : c[4][t] = 0) /\ ~c[5]
        \/ /\ isNumber(c[1]) /\ isNumber(c[3])
           /\ ~OutputDiversityControlErr(c[1], c[2], c[3]) }

InitControl ==
    /\ caller = "lib" /\ req = Nil
    /\ requestIdle
    /\ fwd = Nil /\ cnv = Nil
    /\ dl = Nil /\ gb = Nil /\ ld = Nil /\ ui = Nil
    /\ \E c \in ControlInputs :
          ctl = [temp |-> c[1], topK |-> c[2], topP |-> c[3], logits |-> c[4],
                 sampling |-> c[5], phase |-> "new", dc |-> "nil", result |-> << >>,
                 err |-> "none",
                 prev |-> Nil, cur |-> c[4], done |-> 0, draws |-> 0, tok |-> -1]

\* OutputDiversityControl: nil and an error, or the slice of stages
ControlNew ==
    /\ ctl # Nil /\ ctl.phase = "new"
    /\ IF OutputDiversityControlErr(ctl.temp, ctl.topK, ctl.topP)
       THEN ctl' = [ctl EXCEPT !.phase = "failed", !.err = "invalid"]
       ELSE ctl' = [ctl EXCEPT !.phase = "apply", !.err = "nil", !.dc = "func",
                               !.result = OutputDiversityControl(ctl.temp, ctl.topK, ctl.topP)]
    /\ UNCHANGED <<reqVars, fwd, cnv, ioVars>>

\* the returned function, one pass of `for _, p := range result`; followed
\* for parameters that are numbers
ControlStage ==
    /\ ctl # Nil /\ ctl.phase = "apply"
    /\ isNumber(ctl.temp) /\ isNumber(ctl.topP)
    /\ ctl.done < Len(ctl.result)
    /\ ctl' = [ctl EXCEPT !.prev = ctl.cur,
                          !.cur = applyStage(ctl.result[ctl.done + 1], ctl.cur),
                          !.done = @ + 1]
    /\ UNCHANGED <<reqVars, fwd, cnv, ioVars>>

\* the selection function of OutputSelection on the returned scores: greedy
\* decoding, or one uniform draw u and one scan of the sampler; a scan that
\* appends no sample leaves the loop of multinomial to draw again
ControlSelect ==
    /\ ctl # Nil /\ ctl.phase = "apply"
    /\ isNumber(ctl.temp) /\ isNumber(ctl.topP)
    /\ ctl.done = Len(ctl.result)
    /\ IF ctl.sampling
       THEN /\ ctl.draws < MaxDraws
            /\ \E u \in 0 .. (DrawGrid - 1) :
                  \E r \in {Multinomial(ctl.cur, u)} :
                     ctl' = [ctl EXCEPT !.draws = @ + 1,
                                        !.phase = IF r = -1 THEN "apply" ELSE "done",
                                        !.tok = r]
       ELSE ctl' = [ctl EXCEPT !.phase = "done", !.tok = GreedyDecoding(ctl.cur)]
    /\ UNCHANGED <<reqVars, fwd, cnv, ioVars>>

NextControl ==
    \/ ControlNew
    \/ ControlStage
    \/ ControlSelect

SpecControl == InitControl /\ [][NextControl]_vars

\* =========================================================== the converter
\* ConvertPickledModelToRWKVLM on a model directory: cnv holds the
\* ConverterConfig flag, the output path (kind and content), the config.json
\* and the checkpoint of the directory, the converter's params and
\* Model.Config, the position in run, the steps run, the files read, and the
\* returned error
ConvVocab == 2
ConvDModel == 1
ConvBlocks == 1
MaxRuns == 2

RECURSIVE sizeProduct(_)
sizeProduct(size) == IF Len(size) = 0 THEN 1 ELSE Head(size) * sizeProduct(Tail(size))

\* a pytorch.Tensor: its Size, whether its Source is a BFloat16Storage, and
\* the number of elements the storage holds from StorageOffset on
Tensor(size) == [Size |-> size, bf16 |-> TRUE, stored |-> sizeProduct(size)]

\* the parameters of block id of a checkpoint, by name
blockParams(id, v, d) ==
    LET ffn == [n \in {"key.weight", "receptance.weight", "value.weight",
                       "time_mix_k", "time_mix_r"} |->
                   IF n = "key.weight" THEN Tensor(<<4 * d, d>>)
                   ELSE IF n = "receptance.weight" THEN Tensor(<<d, d>>)
                   ELSE IF n = "value.weight" THEN Tensor(<<d, 4 * d>>)
                   ELSE Tensor(<<1, 1, d>>)]
        att == [n \in {"key.weight", "receptance.weight", "output.weight", "value.weight",
                       "time_decay", "time_first",
                       "time_mix_k", "time_mix_r", "time_mix_v"} |->
                   IF n \in {"time_decay", "time_first"} THEN Tensor(<<d>>)
                   ELSE IF n \in {"time_mix_k", "time_mix_r", "time_mix_v"} THEN Tensor(<<1, 1, d>>)
                   ELSE Tensor(<<d, d>>)]
        lns == {"ln1.weight", "ln1.bias", "ln2.weight", "ln2.bias"}
               \cup (IF id = 0 THEN {"ln0.weight", "ln0.bias"} ELSE {})
    IN  [k \in {<<"blocks", id, "ffn", n>> : n \in DOMAIN ffn}
               \cup {<<"blocks", id, "att", n>> : n \in DOMAIN att}
               \cup {<<"blocks", id, n>> : n \in lns} |->
            IF Len(k) = 3 THEN Tensor(<<d>>)
            ELSE IF k[3] = "ffn" THEN ffn[k[4]] ELSE att[k[4]]]

RECURSIVE allBlockParams(_, _, _)
allBlockParams(n, v, d) ==
    IF n = 0 THEN << >> ELSE allBlockParams(n - 1, v, d) @@ blockParams(n - 1, v, d)

\* the parameters of a checkpoint of an RWKV model with vocabulary v, size d
\* and n blocks
wellFormedParams(v, d, n) ==
    (<<"emb.weight">> :> Tensor(<<v, d>>)) @@ (<<"head.weight">> :> Tensor(<<v, d>>))
    @@ (<<"ln_out.weight">> :> Tensor(<<d>>)) @@ (<<"ln_out.bias">> :> Tensor(<<d>>))
    @@ allBlockParams(n, v, d)

DefectKinds == {"missing", "storage", "scalar", "extent", "short", "zeroRows"}

\* a checkpoint with one parameter damaged
withDefect(params, name, kind) ==
    IF kind = "missing" THEN [k \in DOMAIN params \ {name} |-> params[k]]
    ELSE LET t == params[name]
             bad == IF kind = "storage" THEN [t EXCEPT !.bf16 = FALSE]
                    ELSE IF kind = "scalar" THEN [t EXCEPT !.Size = << >>]
                    ELSE IF kind = "extent"
                         THEN Tensor([t.Size EXCEPT ![Len(t.Size)] = @ + 1])
                    ELSE IF kind = "short" THEN [t EXCEPT !.stored = @ - 1]
                    ELSE Tensor([t.Size EXCEPT ![1] = 0])
         IN  [params EXCEPT ![name] = bad]

\* the checkpoints: well-formed, not a pickle, not an OrderedDict of tensors,
\* a block parameter without a name after the block prefix, or one defect
Checkpoints ==
    LET good == wellFormedParams(ConvVocab, ConvDModel, ConvBlocks)
    IN  {[load |-> l, params |-> good] : l \in {"ok", "malformed", "notDict"}}
        \cup {[load |-> "ok", params |-> good @@ (<<"blocks", 0>> :> Tensor(<<ConvDModel>>))]}
        \cup {[load |-> "ok", params |-> withDefect(good, name, kind)] :
                 name \in DOMAIN good, kind \in DefectKinds}

\* the Config read from config.json
Configs ==
    [VocabSize : {0, ConvVocab, ConvVocab + 1},
     DModel : {0, ConvDModel, ConvDModel + 1},
     NumHiddenLayers : {0, ConvBlocks, ConvBlocks + 1},
     RescaleLayer : 0 .. 2]

defaultConfig ==
    [VocabSize |-> ConvVocab, DModel |-> ConvDModel,
     NumHiddenLayers |-> ConvBlocks, RescaleLayer |-> 1]

\* fileExists: os.Stat succeeds and the path is not a directory
fileExists(kind) == kind = "file"

\* a skip test that ignores the existing output
skipConversionNever(overwriteIfExist, kind) == FALSE

\* the skip test of ConvertPickledModelToRWKVLM
skipConversion(overwriteIfExist, kind) == ~overwriteIfExist /\ fileExists(kind)

\* tensorDataSize: the product of the Size; t.Size[0] of an empty Size is an
\* index out of range (-1 here)
tensorDataSize(t) == IF Len(t.Size) = 0 THEN -1 ELSE sizeProduct(t.Size)

\* tensorData: an error for a storage other than BFloat16Storage, a panic
\* from tensorDataSize or from slicing Data past the storage
tensorData(t) ==
    IF ~t.bf16 THEN "error"
    ELSE IF tensorDataSize(t) < 0 THEN "panic"
    ELSE IF tensorDataSize(t) > t.stored THEN "panic"
    ELSE "ok"

\* tensorToVectors, tensorToMatrix ("matrix"), tensorToVector ("vector") and
\* tensorToSqueezedVector ("squeezed"): the outcome and the resulting shape
tensorTo(kind, t) ==
    IF kind = "matrix" /\ Len(t.Size) # 2 THEN [res |-> "error", shape |-> << >>]
    ELSE IF kind = "vector" /\ Len(t.Size) # 1 THEN [res |-> "error", shape |-> << >>]
    ELSE IF tensorData(t) # "ok" THEN [res |-> tensorData(t), shape |-> << >>]
    ELSE [res |-> "ok",
          shape |-> IF kind = "matrix" THEN t.Size ELSE <<tensorDataSize(t)>>]

\* fetchParamToMatrix, fetchParamToVector and fetchParamToSqueezedVector:
\* paramsMap.fetch, the conversion, and the comparison with the expected size
fetchParamTo(kind, params, name, expectedSize) ==
    IF name \notin DOMAIN params THEN "error"
    ELSE LET r == tensorTo(kind, params[name])
         IN  IF r.res # "ok" THEN r.res
             ELSE IF r.shape # expectedSize THEN "error"
             ELSE "ok"

\* paramsMap.fetchPrefixed: the entries under the prefix, without it
fetchPrefixed(params, prefix) ==
    LET under == {k \in DOMAIN params : Len(k) >= 2 /\ Head(k) = prefix}
    IN  [k \in {Tail(q) : q \in under} |-> params[<<prefix>> \o k]]

\* the entries fetchPrefixed leaves in the map
withoutPrefixed(params, prefix) ==
    [k \in {q \in DOMAIN params : ~(Len(q) >= 2 /\ Head(q) = prefix)} |-> params[k]]

\* the outcome of the first call of a sequence of calls that does not succeed
firstFailure(outcomes) ==
    IF \A n \in DOMAIN outcomes : outcomes[n] = "ok" THEN "ok"
    ELSE outcomes[CHOOSE n \in DOMAIN outcomes :
                     /\ outcomes[n] # "ok"
                     /\ \A m \in DOMAIN outcomes : m < n => outcomes[m] = "ok"]

\* convLayerNorm
convLayerNorm(name, params, dm) ==
    firstFailure(<<fetchParamTo("vector", params, <<name \o ".weight">>, <<dm>>),
                   fetchParamTo("vector", params, <<name \o ".bias">>, <<dm>>)>>)

\* convChanMix: id / RescaleLayer divides by zero when RescaleLayer is 0
convChanMix(id, conf, params) ==
    LET dm == conf.DModel
    IN  IF conf.RescaleLayer = 0 THEN "panic"
        ELSE firstFailure(<<
            fetchParamTo("matrix", params, <<"key.weight">>, <<dm * 4, dm>>),
            fetchParamTo("matrix", params, <<"receptance.weight">>, <<dm, dm>>),
            fetchParamTo("matrix", params, <<"value.weight">>, <<dm, dm * 4>>),
            fetchParamTo("squeezed", params, <<"time_mix_k">>, <<dm>>),
            fetchParamTo("squeezed", params, <<"time_mix_r">>, <<dm>>)>>)

\* convTimeMix
convTimeMix(id, conf, params) ==
    LET dm == conf.DModel
    IN  IF conf.RescaleLayer = 0 THEN "panic"
        ELSE firstFailure(<<
            fetchParamTo("matrix", params, <<"key.weight">>, <<dm, dm>>),
            fetchParamTo("matrix", params, <<"receptance.weight">>, <<dm, dm>>),
            fetchParamTo("matrix", params, <<"output.weight">>, <<dm, dm>>),
            fetchParamTo("matrix", params, <<"value.weight">>, <<dm, dm>>),
            fetchParamTo("squeezed", params, <<"time_decay">>, <<dm>>),
            fetchParamTo("squeezed", params, <<"time_first">>, <<dm>>),
            fetchParamTo("squeezed", params, <<"time_mix_k">>, <<dm>>),
            fetchParamTo("squeezed", params, <<"time_mix_r">>, <<dm>>),
            fetchParamTo("squeezed", params, <<"time_mix_v">>, <<dm>>)>>)

\* convBlock
convBlock(id, conf, params) ==
    firstFailure(<<
        convChanMix(id, conf, fetchPrefixed(params, "ffn")),
        convTimeMix(id, conf, fetchPrefixed(params, "att")),
        IF id = 0 THEN convLayerNorm("ln0", params, conf.DModel) ELSE "ok",
        convLayerNorm("ln1", params, conf.DModel),
        convLayerNorm("ln2", params, conf.DModel)>>)

\* countBlocks: the highest block number plus one, or -1 for the error on a
\* name without a number before a dot
countBlocks(params) ==
    IF \E k \in DOMAIN params : Len(k) < 2 THEN -1
    ELSE LET nums == {Head(k) : k \in DOMAIN params} \cup {0}
         IN  1 + CHOOSE m \in nums : \A n \in nums : n <= m

\* convEmbeddings: the outcome and the Config it leaves
convEmbeddings(conf, params) ==
    IF <<"emb.weight">> \notin DOMAIN params THEN [res |-> "error", conf |-> conf]
    ELSE
    LET t == params[<<"emb.weight">>]
        r == IF Len(t.Size) # 2 THEN "error" ELSE tensorData(t)
        rows == t.Size[1]
        cols == t.Size[2]
    IN  IF r # "ok" THEN [res |-> r, conf |-> conf]
        ELSE IF conf.VocabSize # 0 /\ rows # conf.VocabSize
             THEN [res |-> "error", conf |-> conf]
        ELSE LET c1 == [conf EXCEPT !.VocabSize = rows]
             IN  IF rows = 0 THEN [res |-> "panic", conf |-> c1]
                 ELSE IF c1.DModel = 0
                      THEN [res |-> "ok", conf |-> [c1 EXCEPT !.DModel = cols]]
                 ELSE IF c1.DModel # cols THEN [res |-> "error", conf |-> c1]
                 ELSE [res |-> "ok", conf |-> c1]

\* convLinear
convLinear(conf, params) ==
    fetchParamTo("matrix", params, <<"head.weight">>, <<conf.VocabSize, conf.DModel>>)

\* convBlocks: the outcome and the Config it leaves
convBlocks(conf, params) ==
    LET all == fetchPrefixed(params, "blocks")
        numBlocks == countBlocks(all)
        c1 == IF conf.NumHiddenLayers = 0
              THEN [conf EXCEPT !.NumHiddenLayers = numBlocks] ELSE conf
    IN  IF numBlocks < 0 \/ numBlocks = 0 THEN [res |-> "error", conf |-> conf]
        ELSE IF conf.NumHiddenLayers # 0 /\ conf.NumHiddenLayers # numBlocks
             THEN [res |-> "error", conf |-> conf]
        ELSE [res |-> firstFailure([b \in 1 .. numBlocks |->
                          convBlock(b - 1, c1, fetchPrefixed(all, b - 1))]),
              conf |-> c1]

\* run: what the call of one function of funcs leaves: the next function
\* when it succeeds, the return of its error, or the panic
afterFunc(c, name, res) ==
    [c EXCEPT !.ran = Append(@, name),
              !.step = IF res = "ok" THEN @ + 1 ELSE @,
              !.pc = IF res = "panic" THEN "panicked"
                     ELSE IF res = "error" \/ name = "dumpModel" THEN "returned"
                     ELSE "run",
              !.err = IF res = "error" THEN "error"
                      ELSE IF res = "ok" /\ name = "dumpModel" THEN "nil"
                      ELSE @]

\* the model directories and ConverterConfigs: every Config with a
\* well-formed checkpoint or an empty embedding matrix, and every checkpoint
\* under the matching Config with every kind of output path
ConvertInputs ==
    LET good == wellFormedParams(ConvVocab, ConvDModel, ConvBlocks)
        slice1 == {[overwrite |-> TRUE, out |-> "absent", configOK |-> TRUE,
                    config |-> c, ckpt |-> [load |-> "ok", params |-> p]] :
                      c \in Configs,
                      p \in {good, withDefect(good, <<"emb.weight">>, "zeroRows")}}
        slice2 == {[overwrite |-> o, out |-> k, configOK |-> ok,
                    config |-> defaultConfig, ckpt |-> ck] :
                      o \in BOOLEAN, k \in {"absent", "file", "dir"},
                      ok \in BOOLEAN, ck \in Checkpoints}
    IN  slice1 \cup slice2

InitConvert ==
    /\ caller = "lib" /\ req = Nil
    /\ requestIdle
    /\ ctl = Nil /\ fwd = Nil
    /\ dl = Nil /\ gb = Nil /\ ld = Nil /\ ui = Nil
    /\ \E n \in ConvertInputs :
          cnv = [overwrite |-> n.overwrite, out0 |-> n.out, out |-> n.out,
                 outData0 |-> IF n.out = "file" THEN "old" ELSE "none",
                 outData |-> IF n.out = "file" THEN "old" ELSE "none",
                 runs |-> 1,
                 configOK |-> n.configOK, config |-> n.config, ckpt |-> n.ckpt,
                 conf |-> n.config, params |-> << >>,
                 pc |-> "start", step |-> 0, ran |-> << >>, reads |-> {},
                 err |-> "none"]

\* ConvertPickledModelToRWKVLM up to conv.run(): the skip, LoadConfig,
\* newConverter
ConvertPickledModelToRWKVLM ==
    /\ cnv # Nil /\ cnv.pc = "start"
    /\ IF skipConversion(cnv.overwrite, cnv.out)
       THEN cnv' = [cnv EXCEPT !.pc = "returned", !.err = "nil"]
       ELSE IF ~cnv.configOK
       THEN cnv' = [cnv EXCEPT !.pc = "returned", !.err = "error",
                               !.reads = @ \cup {"config.json"}]
       ELSE cnv' = [cnv EXCEPT !.pc = "run", !.step = 1,
                               !.reads = @ \cup {"config.json"}]
    /\ UNCHANGED <<reqVars, ctl, fwd, ioVars>>

\* run, first function: pytorch.Load and makeParamsMap
StepLoadTorchModelParams ==
    /\ cnv # Nil /\ cnv.pc = "run" /\ cnv.step = 1
    /\ LET res == IF cnv.ckpt.load = "ok" THEN "ok" ELSE "error"
           c1 == [cnv EXCEPT !.reads = @ \cup {"pytorch_model.pt"},
                             !.params = IF res = "ok" THEN cnv.ckpt.params ELSE @]
       IN  cnv' = afterFunc(c1, "loadTorchModelParams", res)
    /\ UNCHANGED <<reqVars, ctl, fwd, ioVars>>

StepConvEmbeddings ==
    /\ cnv # Nil /\ cnv.pc = "run" /\ cnv.step = 2
    /\ LET r == convEmbeddings(cnv.conf, cnv.params)
           c1 == [cnv EXCEPT !.conf = r.conf,
                             !.params = [k \in DOMAIN @ \ {<<"emb.weight">>} |-> @[k]]]
       IN  cnv' = afterFunc(c1, "convEmbeddings", r.res)
    /\ UNCHANGED <<reqVars, ctl, fwd, ioVars>>

StepConvLinear ==
    /\ cnv # Nil /\ cnv.pc = "run" /\ cnv.step = 3
    /\ LET c1 == [cnv EXCEPT !.params = [k \in DOMAIN @ \ {<<"head.weight">>} |-> @[k]]]
       IN  cnv' = afterFunc(c1, "convLinear", convLinear(cnv.conf, cnv.params))
    /\ UNCHANGED <<reqVars, ctl, fwd, ioVars>>

StepConvRootLayerNorm ==
    /\ cnv # Nil /\ cnv.pc = "run" /\ cnv.step = 4
    /\ LET res == convLayerNorm("ln_out", cnv.params, cnv.conf.DModel)
           c1 == [cnv EXCEPT !.params = [k \in DOMAIN @ \ {<<"ln_out.weight">>, <<"ln_out.bias">>}
                                            |-> @[k]]]
       IN  cnv' = afterFunc(c1, "convRootLayerNorm", res)
    /\ UNCHANGED <<reqVars, ctl, fwd, ioVars>>

StepConvBlocks ==
    /\ cnv # Nil /\ cnv.pc = "run" /\ cnv.step = 5
    /\ LET r == convBlocks(cnv.conf, cnv.params)
           c1 == [cnv EXCEPT !.conf = r.conf,
                             !.params = withoutPrefixed(@, "blocks")]
       IN  cnv' = afterFunc(c1, "convBlocks", r.res)
    /\ UNCHANGED <<reqVars, ctl, fwd, ioVars>>

\* dumpModel: Dump creates (truncates) the output file, which fails on a
\* directory, and encodes the model into it, which may fail and leave the
\* file as far as it was written
StepDumpModel ==
    /\ cnv # Nil /\ cnv.pc = "run" /\ cnv.step = 6
    /\ IF cnv.out = "dir"
       THEN cnv' = afterFunc(cnv, "dumpModel", "error")
       ELSE \E encoded \in BOOLEAN :
               cnv' = afterFunc([cnv EXCEPT !.out = "file",
                                            !.outData = IF encoded THEN "new" ELSE "partial"],
                                "dumpModel", IF encoded THEN "ok" ELSE "error")
    /\ UNCHANGED <<reqVars, ctl, fwd, ioVars>>

\* a later call of ConvertPickledModelToRWKVLM on the same model directory,
\* with either setting of OverwriteIfExist: it finds the output path as the
\* earlier call left it
ConvertAgain ==
    /\ cnv # Nil /\ cnv.pc \in {"returned", "panicked"}
    /\ cnv.runs < MaxRuns
    /\ \E o \in BOOLEAN :
          cnv' = [cnv EXCEPT !.overwrite = o, !.out0 = cnv.out, !.outData0 = cnv.outData,
                             !.runs = @ + 1, !.conf = cnv.config, !.params = << >>,
                             !.pc = "start", !.step = 0, !.ran = << >>, !.reads = {},
                             !.err = "none"]
    /\ UNCHANGED <<reqVars, ctl, fwd, ioVars>>

NextConvert ==
    \/ ConvertPickledModelToRWKVLM
    \/ StepLoadTorchModelParams
    \/ StepConvEmbeddings
    \/ StepConvLinear
    \/ StepConvRootLayerNorm
    \/ StepConvBlocks
    \/ StepDumpModel
    \/ ConvertAgain

SpecConvert == InitConvert /\ [][NextConvert]_vars

\* =========================================================== the downloader
\* Download on one model directory: dl holds the flag of the call, what the
\* directory holds at the path of each file of modelsFiles ("absent", "old"
\* for a file that was there before the first call, "empty" for a file
\* created with nothing written, "partial", "complete"), the position in
\* download, the files skipped and fetched by the call, the files whose last
\* fetch failed, the number of calls and the returned error
modelsFiles == <<"config.json", "pytorch_model.pt", "vocab.json", "merges.txt">>
MaxCalls == 2

\* downloadFile, the test before the download: a regular file is at the path
\* and overwriteIfExist is off
skipDownload(overwriteIfExist, kind) == ~overwriteIfExist /\ kind # "absent"

\* how downloadFile can end once it does not skip: os.Create fails, httpGet
\* fails, the response is not 200, io.Copy fails, or the file is written
FetchOutcomes == {"create error", "get error", "status error", "copy error", "ok"}

\* the file downloadFile leaves: os.Create truncates before the request is
\* made, and no return path removes the file
fileAfter(kind, outcome) ==
    IF outcome = "create error" THEN kind
    ELSE IF outcome \in {"get error", "status error"} THEN "empty"
    ELSE IF outcome = "copy error" THEN "partial"
    ELSE "complete"

DownloadDirs ==
    { [f \in DOMAIN modelsFiles |-> "absent"],
      [f \in DOMAIN modelsFiles |-> "old"],
      [f \in DOMAIN modelsFiles |-> IF f <= 2 THEN "old" ELSE "absent"] }

InitDownload ==
    /\ caller = "lib" /\ req = Nil
    /\ requestIdle
    /\ ctl = Nil /\ fwd = Nil /\ cnv = Nil
    /\ gb = Nil /\ ld = Nil /\ ui = Nil
    /\ \E o \in BOOLEAN, d \in DownloadDirs :
          dl = [overwrite |-> o, files |-> d, pc |-> "start", k |-> 1,
                skipped |-> {}, fetched |-> {}, failed |-> {}, calls |-> 1,
                err |-> "none"]

\* Download up to the loop over modelsFiles: ensureModelPath
Download ==
    /\ dl # Nil /\ dl.pc = "start"
    /\ \E made \in BOOLEAN :
          dl' = IF made THEN [dl EXCEPT !.pc = "files"]
                ELSE [dl EXCEPT !.pc = "returned", !.err = "error"]
    /\ UNCHANGED <<reqVars, ctl, fwd, cnv, gb, ld, ui>>

\* one pass of `for _, filename := range modelsFiles`: downloadFile, and the
\* return of download after the last file
downloadFile ==
    /\ dl # Nil /\ dl.pc = "files"
    /\ IF dl.k > Len(modelsFiles)
       THEN dl' = [dl EXCEPT !.pc = "returned", !.err = "nil"]
       ELSE IF skipDownload(dl.overwrite, dl.files[dl.k])
       THEN dl' = [dl EXCEPT !.skipped = @ \cup {dl.k}, !.k = @ + 1]
       ELSE \E outcome \in FetchOutcomes :
               dl' = [dl EXCEPT
                        !.files[dl.k] = fileAfter(@, outcome),
                        !.fetched = @ \cup {dl.k},
                        !.failed = IF outcome \in {"get error", "status error", "copy error"}
                                   THEN @ \cup {dl.k}
                                   ELSE IF outcome = "ok" THEN @ \ {dl.k} ELSE @,
                        !.k = IF outcome = "ok" THEN @ + 1 ELSE @,
                        !.pc = IF outcome = "ok" THEN "files" ELSE "returned",
                        !.err = IF outcome = "ok" THEN @ ELSE "error"]
    /\ UNCHANGED <<reqVars, ctl, fwd, cnv, gb, ld, ui>>

\* a later call of Download on the same directory, with either flag
DownloadAgain ==
    /\ dl # Nil /\ dl.pc = "returned"
    /\ dl.calls < MaxCalls
    /\ \E o \in BOOLEAN :
          dl' = [dl EXCEPT !.overwrite = o, !.pc = "start", !.k = 1, !.skipped = {},
                           !.fetched = {}, !.calls = @ + 1, !.err = "none"]
    /\ UNCHANGED <<reqVars, ctl, fwd, cnv, gb, ld, ui>>

NextDownload ==
    \/ Download
    \/ downloadFile
    \/ DownloadAgain

SpecDownload == InitDownload /\ [][NextDownload]_vars

\* ===================================================================== Load
\* Load on one model directory: ld holds what the directory has for
\* vocab.json, merges.txt and the converted model file ("ok", "missing",
\* "denied" for a file that cannot be opened, "malformed"), the position in
\* Load and the returned error. An error is the operation that failed, its
\* cause, and whether fmt.Errorf wrapped it.
ArtifactKinds == {"ok", "missing", "denied", "malformed"}

noError == [op |-> "nil", cause |-> "nil", wrapped |-> FALSE]

\* os.IsNotExist: true of the error of os.Open on a missing path; it does
\* not look inside an error wrapped by fmt.Errorf
IsNotExist(e) == e.cause = "missing" /\ ~e.wrapped

\* the error Load makes of a model file that is not there
errNotConverted == [op |-> "download and convert", cause |-> "missing", wrapped |-> FALSE]

\* bpetokenizer.Load on vocab.json
vocabularyFromJSONFile(kind) ==
    IF kind = "ok" THEN noError
    ELSE [op |-> "loading vocabulary", cause |-> kind, wrapped |-> TRUE]

\* bpetokenizer.Load on merges.txt
mergeMapFromFile(kind) ==
    IF kind = "ok" THEN noError
    ELSE [op |-> "loading merges", cause |-> kind, wrapped |-> TRUE]

\* rwkvlm.Load: loadFromFile returns the error of os.Open or of gobDecoding
\* as it is
loadFromFile(kind) ==
    IF kind = "ok" THEN noError
    ELSE [op |-> "model file", cause |-> kind, wrapped |-> FALSE]

InitLoad ==
    /\ caller = "lib" /\ req = Nil
    /\ requestIdle
    /\ ctl = Nil /\ fwd = Nil /\ cnv = Nil
    /\ dl = Nil /\ gb = Nil /\ ui = Nil
    /\ \E v \in ArtifactKinds, m \in ArtifactKinds, g \in ArtifactKinds :
          ld = [vocab |-> v, merges |-> m, model |-> g, pc |-> "vocab",
                tk |-> FALSE, loaded |-> FALSE, err |-> noError]

\* tokenizer.Load, first half: the vocabulary
LoadVocabulary ==
    /\ ld # Nil /\ ld.pc = "vocab"
    /\ \E e \in {vocabularyFromJSONFile(ld.vocab)} :
          ld' = IF e = noError THEN [ld EXCEPT !.pc = "merges"]
                ELSE [ld EXCEPT !.pc = "returned", !.err = e]
    /\ UNCHANGED <<reqVars, ctl, fwd, cnv, dl, gb, ui>>

\* tokenizer.Load, second half: the merges; Load returns its error as it is
LoadMerges ==
    /\ ld # Nil /\ ld.pc = "merges"
    /\ \E e \in {mergeMapFromFile(ld.merges)} :
          ld' = IF e = noError THEN [ld EXCEPT !.pc = "model", !.tk = TRUE]
                ELSE [ld EXCEPT !.pc = "returned", !.err = e]
    /\ UNCHANGED <<reqVars, ctl, fwd, cnv, dl, gb, ui>>

\* rwkvlm.Load and the return of Load
LoadModel ==
    /\ ld # Nil /\ ld.pc = "model"
    /\ \E e \in {loadFromFile(ld.model)} :
          ld' = IF e = noError THEN [ld EXCEPT !.pc = "returned", !.loaded = TRUE]
                ELSE IF IsNotExist(e) THEN [ld EXCEPT !.pc = "returned", !.err = errNotConverted]
                ELSE [ld EXCEPT !.pc = "returned", !.err = e]
    /\ UNCHANGED <<reqVars, ctl, fwd, cnv, dl, gb, ui>>

NextLoad ==
    \/ LoadVocabulary
    \/ LoadMerges
    \/ LoadModel

SpecLoad == InitLoad /\ [][NextLoad]_vars

\* ============================================================ the UI server
\* UIServer.ServeHTTP on one websocket connection: ui holds the client side
\* (open or closed, the messages written and not yet read), the main context,
\* the reader goroutine (its position and the message it holds), readChan,
\* the handler's position, genCtx of the prompt being served, the goroutine
\* that watches readChan during a stream and those of earlier prompts still
\* running, and the tokens written
MaxClientMsgs == 2
MaxTokens == 1

MsgTypes == {"prompt", "stop-token-stream", "other"}

\* cancelMainCtx: genCtx is a child of ctx
cancelMainCtx(u) ==
    [u EXCEPT !.ctx = "done", !.gen = IF @ = "live" THEN "done" ELSE @]

\* the return of the function literal that serves one prompt: the deferred
\* cancel(nil); its watcher goes on until it sees genCtx.Done()
promptServed(u) ==
    [u EXCEPT !.hpc = "recv",
              !.gen = IF @ = "live" THEN "done" ELSE @,
              !.stale = IF u.watcher THEN @ + 1 ELSE @,
              !.watcher = FALSE]

InitUI ==
    /\ caller = "lib" /\ req = Nil
    /\ requestIdle
    /\ ctl = Nil /\ fwd = Nil /\ cnv = Nil
    /\ dl = Nil /\ gb = Nil /\ ld = Nil
    /\ ui = [client |-> "open", inbox |-> << >>, written |-> 0, ctx |-> "live",
             reader |-> "none", held |-> "none", readChan |-> << >>,
             hpc |-> "accept", gen |-> "none", watcher |-> FALSE, stale |-> 0,
             tokens |-> 0]

\* the client writes a message on the websocket
UIClientWrite ==
    /\ ui # Nil /\ ui.client = "open" /\ ui.written < MaxClientMsgs
    /\ \E m \in MsgTypes :
          ui' = [ui EXCEPT !.inbox = Append(@, m), !.written = @ + 1]
    /\ UNCHANGED <<reqVars, ctl, fwd, cnv, dl, gb, ld>>

\* the client disconnects
UIClientClose ==
    /\ ui # Nil /\ ui.client = "open"
    /\ ui' = [ui EXCEPT !.client = "closed"]
    /\ UNCHANGED <<reqVars, ctl, fwd, cnv, dl, gb, ld>>

\* websocket.Accept, the contexts, readChan and the start of the reader
UIAccept ==
    /\ ui # Nil /\ ui.hpc = "accept"
    /\ \E accepted \in BOOLEAN :
          ui' = IF accepted THEN [ui EXCEPT !.hpc = "recv", !.reader = "read"]
                ELSE [ui EXCEPT !.hpc = "returned"]
    /\ UNCHANGED <<reqVars, ctl, fwd, cnv, dl, gb, ld>>

\* the reader goroutine, wsjson.Read: a message, or an error (the context is
\* done, the client is gone, the frame cannot be read) after which it
\* cancels the main context and returns
UIReaderRead ==
    /\ ui # Nil /\ ui.reader = "read"
    /\ \/ /\ ui.ctx = "live" /\ ui.inbox # << >>
          /\ ui' = [ui EXCEPT !.held = Head(ui.inbox), !.inbox = Tail(@), !.reader = "send"]
       \/ /\ ui.ctx = "done" \/ ui.client = "closed" \/ ui.inbox # << >>
          /\ ui' = [cancelMainCtx(ui) EXCEPT !.reader = "exited"]
    /\ UNCHANGED <<reqVars, ctl, fwd, cnv, dl, gb, ld>>

\* the reader goroutine, readChan <- msg on the channel of capacity one
UIReaderSend ==
    /\ ui # Nil /\ ui.reader = "send"
    /\ Len(ui.readChan) < 1
    /\ ui' = [ui EXCEPT !.readChan = Append(@, ui.held), !.held = "none", !.reader = "read"]
    /\ UNCHANGED <<reqVars, ctl, fwd, cnv, dl, gb, ld>>

\* the handler's loop, cliMsg := <-readChan: a message that is no prompt is
\* dropped; a prompt opens genCtx and starts the watcher
UIServeRecv ==
    /\ ui # Nil /\ ui.hpc = "recv"
    /\ ui.readChan # << >>
    /\ ui' = IF Head(ui.readChan) # "prompt"
             THEN [ui EXCEPT !.readChan = Tail(@)]
             ELSE [ui EXCEPT !.readChan = Tail(@), !.hpc = "generate",
                             !.gen = IF ui.ctx = "live" THEN "live" ELSE "done",
                             !.watcher = TRUE, !.tokens = 0]
    /\ UNCHANGED <<reqVars, ctl, fwd, cnv, dl, gb, ld>>

\* the watcher of the prompt being served, one pass of its select
UIWatch ==
    /\ ui # Nil /\ ui.watcher
    /\ \/ /\ ui.readChan # << >>
          /\ ui' = IF Head(ui.readChan) = "stop-token-stream"
                   THEN [ui EXCEPT !.readChan = Tail(@), !.watcher = FALSE,
                                   !.gen = IF @ = "live" THEN "stopped" ELSE @]
                   ELSE [ui EXCEPT !.readChan = Tail(@)]
       \/ /\ ui.gen # "live"
          /\ ui' = [ui EXCEPT !.watcher = FALSE]
    /\ UNCHANGED <<reqVars, ctl, fwd, cnv, dl, gb, ld>>

\* a watcher of an earlier prompt, whose genCtx is done: it returns, or its
\* select takes a message from readChan first
UIWatchStale ==
    /\ ui # Nil /\ ui.stale > 0
    /\ \/ ui' = [ui EXCEPT !.stale = @ - 1]
       \/ /\ ui.readChan # << >>
          /\ ui' = [ui EXCEPT !.readChan = Tail(@),
                              !.stale = IF Head(ui.readChan) = "stop-token-stream"
                                        THEN @ - 1 ELSE @]
    /\ UNCHANGED <<reqVars, ctl, fwd, cnv, dl, gb, ld>>

\* lmClient.GenerateTokens(genCtx, ...): a stream, or an error that is
\* written to the client before the prompt's function returns
UIGenerate ==
    /\ ui # Nil /\ ui.hpc = "generate"
    /\ \/ ui' = [ui EXCEPT !.hpc = "stream"]
       \/ ui' = promptServed(ui)
    /\ UNCHANGED <<reqVars, ctl, fwd, cnv, dl, gb, ld>>

\* one pass of the loop over tokenStream.Recv(): a token written to the
\* client; the end of the stream or the stop asked by the client, answered
\* with end-of-tokens; any other error; a failed write cancels the main
\* context
UIStream ==
    /\ ui # Nil /\ ui.hpc = "stream"
    /\ \/ /\ ui.gen = "live" /\ ui.tokens < MaxTokens
          /\ \E wrote \in BOOLEAN :
                ui' = IF wrote /\ ui.ctx = "live" /\ ui.client = "open"
                      THEN [ui EXCEPT !.tokens = @ + 1]
                      ELSE promptServed(cancelMainCtx(ui))
       \/ /\ ui.gen \in {"live", "stopped"}
          /\ \E wrote \in BOOLEAN :
                ui' = IF wrote /\ ui.ctx = "live" /\ ui.client = "open"
                      THEN promptServed(ui)
                      ELSE promptServed(cancelMainCtx(ui))
       \/ ui' = promptServed(cancelMainCtx(ui))
    /\ UNCHANGED <<reqVars, ctl, fwd, cnv, dl, gb, ld>>

\* a step of the goroutine that runs ServeHTTP
UIHandlerStep ==
    \/ UIAccept
    \/ UIServeRecv
    \/ UIGenerate
    \/ UIStream

NextUI ==
    \/ UIClientWrite
    \/ UIClientClose
    \/ UIAccept
    \/ UIReaderRead
    \/ UIReaderSend
    \/ UIServeRecv
    \/ UIWatch
    \/ UIWatchStale
    \/ UIGenerate
    \/ UIStream

SpecUI == InitUI /\ [][NextUI]_vars

\* ========================================================== dump and load
\* Dump of a model and loadFromFile of the file it wrote: gb holds the model,
\* the chunks held by the bufio.Writer, the file (whether it exists and the
\* chunks written to it), the positions of gobEncode and gobDecoding, the
\* object being decoded, whether Dump returned nil, and the error of load.
\* A gob chunk is the set of field names of its type and the fields of the
\* value that are not zero; decoding matches fields by name into the target.
DumpLayers == 2

layerValues == {[TimeMix |-> 0, ChanMix |-> 1], [TimeMix |-> 1, ChanMix |-> 0]}

RECURSIVE seqsUpTo(_, _)
seqsUpTo(S, n) ==
    IF n = 0 THEN {<< >>}
    ELSE seqsUpTo(S, n - 1) \cup
         {Append(q, e) : q \in {r \in seqsUpTo(S, n - 1) : Len(r) = n - 1}, e \in S}

\* the models that New and the converter build: the encoder has
\* Config.NumHiddenLayers layers
DumpModels ==
    { [Config |-> [DModel |-> 1, NumHiddenLayers |-> Len(ls), VocabSize |-> 2,
                   RescaleLayer |-> r],
       Embeddings |-> [Emb |-> e],
       LN |-> [W |-> 1, B |-> 0],
       Linear |-> [Value |-> w],
       EncoderConfig |-> [DModel |-> 1, NumLayers |-> Len(ls), RescaleLayer |-> r],
       Layers |-> ls] :
         r \in 0 .. 1, e \in 0 .. 1, w \in 0 .. 1, ls \in seqsUpTo(layerValues, DumpLayers) }

\* encoder.Encode of one value: gob sends no field that is zero
gobChunk(v) == [type |-> DOMAIN v, fields |-> [f \in {g \in DOMAIN v : v[g] # 0} |-> v[f]]]

\* whether decoder.Decode accepts the chunk for a target of this type
gobCompatible(chunk, target) == chunk.type \cap DOMAIN target # {}

\* decoder.Decode into target: the fields sent that the target has
gobDecodeInto(chunk, target) ==
    [f \in DOMAIN target |-> IF f \in DOMAIN chunk.fields THEN chunk.fields[f] ELSE target[f]]

\* the chunks with the output projection ahead of the root layer-norm
getChunksLinearFirst(obj) ==
    <<obj.Config, obj.Embeddings, obj.Linear, obj.LN, obj.EncoderConfig>> \o obj.Layers

\* getChunksForGobEncoding
getChunksForGobEncoding(obj) ==
    <<obj.Config, obj.Embeddings, obj.LN, obj.Linear, obj.EncoderConfig>> \o obj.Layers

\* gobDecoding: the object before the first Decode
emptyObject ==
    [Config |-> [DModel |-> 0, NumHiddenLayers |-> 0, VocabSize |-> 0, RescaleLayer |-> 0],
     Embeddings |-> [Emb |-> 0],
     LN |-> [W |-> 0, B |-> 0],
     Linear |-> [Value |-> 0],
     EncoderConfig |-> [DModel |-> 0, NumLayers |-> 0, RescaleLayer |-> 0],
     Layers |-> << >>]

emptyLayer == [TimeMix |-> 0, ChanMix |-> 0]

\* gobDecoding: the target of the n-th Decode
decodeTargets == <<"Config", "Embeddings", "LN", "Linear", "EncoderConfig">>

InitDump ==
    /\ caller = "lib" /\ req = Nil
    /\ requestIdle
    /\ ctl = Nil /\ fwd = Nil /\ cnv = Nil
    /\ dl = Nil /\ ld = Nil /\ ui = Nil
    /\ \E m \in DumpModels :
          gb = [model |-> m, exists |-> FALSE, file |-> << >>, buf |-> << >>,
                pc |-> "create", k |-> 1, dumpOK |-> FALSE,
                obj |-> emptyObject, kd |-> 1, err |-> "none"]

\* Dump: os.Create
DumpCreate ==
    /\ gb # Nil /\ gb.pc = "create"
    /\ \E opened \in BOOLEAN :
          gb' = IF opened THEN [gb EXCEPT !.exists = TRUE, !.pc = "encode"]
                ELSE [gb EXCEPT !.pc = "dumpFailed"]
    /\ UNCHANGED <<reqVars, ctl, fwd, cnv, dl, ld, ui>>

\* gobEncode: encoder.Encode(chunk) into the bufio.Writer, or the return
\* after the last chunk
GobEncodeChunk ==
    /\ gb # Nil /\ gb.pc = "encode"
    /\ \E chunks \in {getChunksForGobEncoding(gb.model)} :
          IF gb.k > Len(chunks)
          THEN gb' = [gb EXCEPT !.pc = "dumped", !.dumpOK = TRUE]
          ELSE \E encoded \in BOOLEAN :
                  gb' = IF encoded
                        THEN [gb EXCEPT !.buf = Append(@, gobChunk(chunks[gb.k])),
                                        !.pc = "flush"]
                        ELSE [gb EXCEPT !.pc = "dumpFailed"]
    /\ UNCHANGED <<reqVars, ctl, fwd, cnv, dl, ld, ui>>

\* gobEncode: bw.Flush() after the chunk
GobFlush ==
    /\ gb # Nil /\ gb.pc = "flush"
    /\ \E flushed \in BOOLEAN :
          gb' = IF flushed
                THEN [gb EXCEPT !.file = @ \o gb.buf, !.buf = << >>, !.k = @ + 1,
                                !.pc = "encode"]
                ELSE [gb EXCEPT !.pc = "dumpFailed"]
    /\ UNCHANGED <<reqVars, ctl, fwd, cnv, dl, ld, ui>>

\* loadFromFile: os.Open
LoadOpen ==
    /\ gb # Nil /\ gb.pc \in {"dumped", "dumpFailed"}
    /\ gb' = IF gb.exists THEN [gb EXCEPT !.pc = "decode"]
             ELSE [gb EXCEPT !.pc = "loadFailed", !.err = "open"]
    /\ UNCHANGED <<reqVars, ctl, fwd, cnv, dl, ld, ui>>

\* gobDecoding: one decoder.Decode, the five parts and then
\* obj.Config.NumHiddenLayers layers, or the return of the object
GobDecodeChunk ==
    /\ gb # Nil /\ gb.pc = "decode"
    /\ IF gb.kd > Len(decodeTargets) + gb.obj.Config.NumHiddenLayers
       THEN gb' = [gb EXCEPT !.pc = "loaded", !.err = "nil"]
       ELSE IF gb.kd > Len(gb.file)
       THEN gb' = [gb EXCEPT !.pc = "loadFailed", !.err = "EOF"]
       ELSE \E chunk \in {gb.file[gb.kd]} :
            \E target \in {IF gb.kd <= Len(decodeTargets)
                           THEN gb.obj[decodeTargets[gb.kd]] ELSE emptyLayer} :
               IF ~gobCompatible(chunk, target)
               THEN gb' = [gb EXCEPT !.pc = "loadFailed", !.err = "type"]
               ELSE IF gb.kd <= Len(decodeTargets)
               THEN gb' = [gb EXCEPT !.obj[decodeTargets[gb.kd]] = gobDecodeInto(chunk, target),
                                     !.kd = @ + 1]
               ELSE gb' = [gb EXCEPT !.obj.Layers = Append(@, gobDecodeInto(chunk, target)),
                                     !.kd = @ + 1]
    /\ UNCHANGED <<reqVars, ctl, fwd, cnv, dl, ld, ui>>

NextDump ==
    \/ DumpCreate
    \/ GobEncodeChunk
    \/ GobFlush
    \/ LoadOpen
    \/ GobDecodeChunk

SpecDump == InitDump /\ [][NextDump]_vars

\* ================================================================= claims
decodeReturned == exitPath \in {"stop", "cancel", "invalid"}

\* the tail of the first k tokens of seq equals some configured stop sequence
tailIsStop(seq, k) ==
    \E n \in DOMAIN opts.StopSequencesIDs :
        LET st == opts.StopSequencesIDs[n]
        IN  /\ Len(st) <= k
            /\ \A j \in 1 .. Len(st) : st[j] = seq[k - Len(st) + j]

\* C1: one Decode call emits at most MaxLen tokens to the output stream,
\* for every DecodingOptions.
C1_AtMostMaxLen ==
    hpc # "start" => Len(sent) <= opts.MaxLen

\* C2: while fewer than MinLen tokens have been generated the end token is
\* never the selected token: the k-th token, k <= MinLen, is not EndTokenID.
C2_EndTokenSuppressedBelowMinLen ==
    \A k \in 1 .. Len(sequence) : k <= opts.MinLen => sequence[k] # opts.EndTokenID

\* the first token was selected below MinLen by a step whose predicted logit
\* of the end token can have been the strict maximum, in sampling mode with
\* all stages enabled
C2_Witness ==
    /\ Len(sequence) >= 1
    /\ \E r \in generateToken[stepKey(opts, 0)] :
          r.endMax /\ r.tokenID = sequence[1]
    /\ opts.UseSampling /\ opts.Temp # 100 /\ opts.TopK # 0 /\ opts.TopP # 100

\* C3: once the emitted tokens have a length >= MinLen and a tail equal to a
\* configured stop sequence, no further token is emitted.
C3_NoTokenAfterStopSequence ==
    \A k \in 1 .. (Len(sent) - 1) : ~(k >= opts.MinLen /\ tailIsStop(sent, k))

\* Decode returned on a stop sequence below MaxLen, the last token not
\* being the end token
C3_Witness ==
    /\ exitPath = "stop"
    /\ Len(sent) < opts.MaxLen
    /\ sent[Len(sent)] # opts.EndTokenID
    /\ Len(sent) >= opts.MinLen
    /\ tailIsStop(sent, Len(sent))

\* C4: after each generated token the loop stops if and only if
\* length >= MaxLen, or the token is EndTokenID, or length >= MinLen and the
\* tail equals a stop sequence; otherwise it goes on to encode the token and
\* to the next step.
C4_StopIffCondition ==
    [][ /\ (pc = "check" /\ pc' # "check") =>
              LET n == Len(sequence)
                  stop == \/ n >= opts.MaxLen
                          \/ sequence[n] = opts.EndTokenID
                          \/ (n >= opts.MinLen /\ tailIsStop(sequence, n))
              IN  /\ stop => (pc' = "returned" /\ exitPath' = "stop")
                  /\ ~stop => pc' = "encode"
        /\ (pc = "encode" /\ pc' # "encode") => (pc' = "loop" /\ i' = i + 1)
      ]_vars

\* the loop went on although the tail equals a stop sequence, the length
\* being below MinLen
C4_Witness ==
    /\ pc = "encode"
    /\ Len(sequence) < opts.MinLen
    /\ tailIsStop(sequence, Len(sequence))

\* C5: Decode closes the output stream exactly once on every exit path, only
\* after the loop has ended, and sends nothing after closing it.
C5_ClosedExactlyOnce ==
    /\ [](/\ chGen.closed <= 1
          /\ decodeReturned => chGen.closed = 1
          /\ chGen.closed > 0 => pc \in {"returned", "done"})
    /\ [][chGen.closed > 0 => sent' = sent]_vars

\* Decode returned on cancellation after emitting, the stream closed once
C5_Witness ==
    /\ exitPath = "cancel"
    /\ Len(sent) >= 1
    /\ chGen.closed = 1

\* C6 as stated: when the request was cancelled after N emitted tokens and
\* Decode has left its loop on the cancellation, the stream carries exactly
\* those N tokens, is closed, and every tracked node has been released.
C6_ExactlyNTokens ==
    (exitPath = "cancel" /\ atCancel >= 0) =>
        /\ Len(sent) = atCancel
        /\ chGen.closed = 1
        /\ nt \subseteq released

\* C6 as amended: a step that had passed its cancellation check before the
\* cancellation still emits its token, so the stream carries the N tokens
\* and at most one more; it is closed and every tracked node is released.
C6_AtMostOneMoreToken ==
    (decodeReturned /\ atCancel >= 0) =>
        /\ Len(sent) \in {atCancel, atCancel + 1}
        /\ chGen.closed = 1
        /\ nt \subseteq released

\* cancelled after one or more tokens, Decode left the loop on the
\* cancellation having emitted one further token
C6_Witness ==
    /\ exitPath = "cancel"
    /\ atCancel >= 1
    /\ Len(sent) = atCancel + 1
    /\ nt # {} /\ nt \subseteq released

\* C7: cancellation is observed at the top of every step and is a normal
\* end: a token is generated only by a step that found the context not done,
\* and a step that finds it done returns nil without generating or emitting,
\* leaving the emitted tokens as they are.
C7_CancellationIsNormalEnd ==
    [][ /\ (Len(sequence') > Len(sequence)) => (pc = "loop" /\ ~ctxDone)
        /\ (pc = "loop" /\ ctxDone /\ pc' # pc) =>
              /\ pc' = "returned"
              /\ genErr' = "nil"
              /\ sequence' = sequence
              /\ sent' = sent
              /\ created' = created
      ]_vars

\* Decode returned nil on cancellation with tokens already emitted
C7_Witness ==
    /\ exitPath = "cancel"
    /\ genErr = "nil"
    /\ Len(sent) >= 1
    /\ Len(sent) < opts.MaxLen

\* the chosen tokens without the end token when SkipEndTokenID is set
RECURSIVE withoutSkippedEnd(_)
withoutSkippedEnd(seq) ==
    IF seq = << >> THEN << >>
    ELSE IF Head(seq) = opts.EndTokenID /\ opts.SkipEndTokenID
         THEN withoutSkippedEnd(Tail(seq))
         ELSE <<Head(seq)>> \o withoutSkippedEnd(Tail(seq))

\* C8: the tokens on the output stream of Decode up to its closure are the
\* tokens chosen by the steps, in order, except that a chosen end token is
\* not emitted when SkipEndTokenID is set.
C8_StreamIsChosenTokensWithoutSkippedEnd ==
    (exitPath \in {"stop", "cancel"}) => sent = withoutSkippedEnd(sequence)

\* C9: when Decode has returned, every computation node created for the
\* request (prefill included) is registered in the tracker and released.
C9_AllNodesTrackedAndReleased ==
    decodeReturned => (created \subseteq nt /\ created \subseteq released)

\* C10: a request whose decoding options are out of range ends with the
\* configuration error: no token is generated, and once nothing more can
\* happen Generate has returned the error and the GenerateTokens handler has
\* returned it to its caller.
C10_ConfigErrorReturned ==
    (hpc # "start" /\ OutputDiversityControlErr(opts.Temp, opts.TopK, opts.TopP)) =>
        /\ sequence = << >>
        /\ (~ENABLED Next) =>
              /\ genErr = "config"
              /\ caller = "grpc" => hret = "config"

\* the closed interval [0, 1] of a temperature or top-p value
inUnitInterval(v) == isNumber(v) /\ 0 <= v /\ v <= 100

\* C11: OutputDiversityControl returns an error and no pipeline exactly
\* when temperature is outside [0,1], or top-k is negative, or top-p is
\* outside [0,1]; for all other values a pipeline and no error.
C11_ErrorIffOutOfRange ==
    (ctl # Nil /\ ctl.phase # "new") =>
        LET outOfRange == \/ ~inUnitInterval(ctl.temp)
                          \/ ctl.topK < 0
                          \/ ~inUnitInterval(ctl.topP)
        IN  /\ outOfRange <=> (ctl.err # "nil" /\ ctl.dc = "nil")
            /\ ~outOfRange <=> (ctl.err = "nil" /\ ctl.dc # "nil")

\* C12: single-step forward once per token, threading the State, yields the
\* same hidden output for the last token and the same final State as one
\* sequence-mode forward over the whole sequence.
C12_SingleStepsEqualSequenceMode ==
    (fwd # Nil /\ fwd.qdone /\ fwd.gen = 0 /\ Len(fwd.sh) = Len(fwd.tokens)) =>
        /\ fwd.sh[Len(fwd.sh)] = fwd.qh[Len(fwd.qh)]
        /\ fwd.sstate = fwd.qstate

\* both modes have run over a sequence of at least three tokens and two
\* blocks, from a carried State
C12_Witness ==
    /\ fwd # Nil /\ fwd.qdone /\ fwd.gen = 0
    /\ Len(fwd.tokens) >= 3 /\ Len(fwd.sh) = Len(fwd.tokens)
    /\ fwd.c.NumLayers >= 2
    /\ fwd.tokens[1] # fwd.tokens[3]
    /\ fwd.sstate # NewState(fwd.c.NumLayers)

\* a State of the configured shape: NumLayers layer states of five vectors
hasConfiguredShape(st, c) ==
    /\ DOMAIN st = 1 .. c.NumLayers
    /\ \A l \in DOMAIN st : DOMAIN st[l] = Fields

\* C13: in every reachable state the State holds exactly NumHiddenLayers
\* layer states of five vectors each, whatever the number of prompt tokens
\* encoded or tokens generated.
C13_StateShapeFixed ==
    fwd # Nil =>
        /\ Len(fwd.sh) > 0 => hasConfiguredShape(fwd.sstate, fwd.c)
        /\ fwd.qdone => hasConfiguredShape(fwd.qstate, fwd.c)
        /\ \A st \in {fwd.sstate, fwd.qstate} : Len(st) > 0 => hasConfiguredShape(st, fwd.c)

\* a prompt of several tokens was encoded from no State in sequence mode and
\* token by token, and a token was generated after it
C13_Witness ==
    /\ fwd # Nil /\ fwd.qdone /\ fwd.gen >= 1
    /\ Len(fwd.tokens) >= 2 /\ Len(fwd.sh) = Len(fwd.tokens)
    /\ fwd.c.NumLayers >= 2
    /\ hasConfiguredShape(fwd.qstate, fwd.c)

\* C14: before block i (0-based) runs, either mode has multiplied the hidden
\* value by 0.5 exactly floor(i / RescaleLayer) times, and the converter
\* divides the block's TimeMix output and ChannelMix value weights by
\* 2^floor(i / RescaleLayer), the product of those halvings.
C14_RescaleCompensation ==
    fwd # Nil =>
        \A b \in {fwd.sbefore, fwd.qbefore} : \A k \in DOMAIN b :
            /\ b[k] = (k - 1) \div fwd.c.RescaleLayer
            /\ outScale(k - 1, fwd.c.RescaleLayer) = Pow2(b[k])

\* three blocks with RescaleLayer 2 ran in both modes: the third block ran
\* after one halving, the first two after none
C14_Witness ==
    /\ fwd # Nil /\ fwd.qdone /\ Len(fwd.sh) > 0
    /\ fwd.c.RescaleLayer = 2
    /\ Len(fwd.sbefore) >= 3 /\ Len(fwd.qbefore) >= 3
    /\ fwd.sbefore[3] = 1 /\ fwd.qbefore[3] = 1 /\ fwd.qbefore[2] = 0
    /\ outScale(2, fwd.c.RescaleLayer) = 2

\* the position of a stage in the order temperature, top-k, top-p
stageOrder(name) == IF name = "temperature" THEN 1 ELSE IF name = "topK" THEN 2 ELSE 3

\* C15: the pipeline holds its enabled stages in the order temperature,
\* top-k, top-p, a stage being enabled exactly when its parameter is not the
\* no-op value (temperature 1, top-k 0, top-p 1); the scores it returns are
\* those stages applied in that order, and the logits themselves when all
\* three parameters are no-op values.
C15_StagesInOrderNoOpSkipped ==
    (ctl # Nil /\ ctl.dc = "func" /\ isNumber(ctl.temp) /\ isNumber(ctl.topP)) =>
        LET names == [j \in DOMAIN ctl.result |-> ctl.result[j][1]]
            enabled == {names[j] : j \in DOMAIN names}
        IN  /\ \A j, k \in DOMAIN names : j < k => stageOrder(names[j]) < stageOrder(names[k])
            /\ ("temperature" \in enabled) <=> (ctl.temp # 100)
            /\ ("topK" \in enabled) <=> (ctl.topK # 0)
            /\ ("topP" \in enabled) <=> (ctl.topP # 100)
            /\ ctl.done = Len(ctl.result) =>
                  /\ ctl.cur = ApplyOutputControl(ctl.temp, ctl.topK, ctl.topP, ctl.logits)
                  /\ (ctl.temp = 100 /\ ctl.topK = 0 /\ ctl.topP = 100) => ctl.cur = ctl.logits

\* all three stages were enabled and applied, each changing the scores of
\* logits that are not all equal
C15_Witness ==
    /\ ctl # Nil /\ ctl.dc = "func" /\ Len(ctl.result) = 3 /\ ctl.done = 3
    /\ ctl.temp = 50 /\ ctl.topK = 2 /\ ctl.topP = 40
    /\ ctl.cur # ctl.logits /\ ctl.prev # ctl.cur
    /\ \E t \in Vocab : ctl.cur[t] = NegInf

\* every parameter is its no-op value and the returned function ran on
\* logits that are not all equal
C15_WitnessNoOp ==
    /\ ctl # Nil /\ ctl.phase = "done" /\ Len(ctl.result) = 0
    /\ \E t, u \in Vocab : ctl.logits[t] # ctl.logits[u]
    /\ ctl.cur = ctl.logits

\* the stage of `result` applied last, "" before the first
lastStage == IF ctl.done = 0 THEN "" ELSE ctl.result[ctl.done][1]

\* C16: a top-k stage with k >= the vocabulary size returns the scores it
\* was given; with k = 1 the token selected from the pipeline's scores holds
\* a highest logit, under greedy decoding and under sampling alike.
C16_TopKAllIsNoOpTopOneIsArgmax ==
    (ctl # Nil /\ ctl.dc = "func" /\ isNumber(ctl.temp) /\ isNumber(ctl.topP)) =>
        /\ (lastStage = "topK" /\ ctl.topK >= VocabSize) => ctl.cur = ctl.prev
        /\ (ctl.topK = 1 /\ ctl.phase = "done") =>
              /\ ctl.tok \in Vocab
              /\ ctl.logits[ctl.tok] = MaxOf(ctl.logits)

\* sampling with k = 1 selected a token other than the first one of logits
\* that are not all equal
C16_Witness ==
    /\ ctl # Nil /\ ctl.phase = "done" /\ ctl.topK = 1 /\ ctl.sampling
    /\ ctl.tok # 0
    /\ \E t \in Vocab : ctl.logits[t] < ctl.logits[ctl.tok]

\* a top-k stage with k above the vocabulary size ran on logits that are
\* not all equal
C16_WitnessAll ==
    /\ ctl # Nil /\ lastStage = "topK" /\ ctl.topK > VocabSize
    /\ \E t, u \in Vocab : ctl.prev[t] # ctl.prev[u]

\* C17: for 1 <= k <= n a top-k stage keeps only the k highest logits: at
\* most k entries keep their value, every kept entry is >= every filtered
\* one, and every other entry is negative infinity.
C17_TopKKeepsAtMostK ==
    (ctl # Nil /\ lastStage = "topK" /\ 1 <= ctl.topK /\ ctl.topK <= VocabSize) =>
        LET kept == {t \in Vocab : ctl.cur[t] # NegInf}
        IN  /\ Cardinality(kept) <= ctl.topK
            /\ \A t \in kept : ctl.cur[t] = ctl.prev[t]
            /\ \A t \in kept : \A u \in Vocab \ kept : ctl.prev[t] >= ctl.prev[u]
            /\ \A u \in Vocab \ kept : ctl.cur[u] = NegInf

\* C18: for p in [0,1) a top-p stage keeps a non-empty prefix of the tokens
\* in descending order of probability: the tokens before the first one at
\* which the cumulative probability exceeds p, and that token; every other
\* token becomes negative infinity at its own index. With p = 0 only the top
\* token is kept.
C18_TopPKeepsPrefixWithCrossing ==
    (ctl # Nil /\ lastStage = "topP" /\ 0 <= ctl.topP /\ ctl.topP < 100) =>
        LET sorted == SortedIndices(ctl.prev)
            w == SoftmaxWeights(ctl.prev)
            cumulative(j) == SumOver(w, {sorted[a] : a \in 1 .. j})
            exceeds(j) == cumulative(j) * 100 > ctl.topP * SoftmaxTotal(ctl.prev)
            crossings == {j \in 1 .. VocabSize : exceeds(j)}
            first == CHOOSE j \in crossings : \A k \in crossings : j <= k
            kept == {sorted[j] : j \in 1 .. first}
        IN  /\ crossings # {}
            /\ kept # {}
            /\ \A t \in Vocab : ctl.cur[t] = IF t \in kept THEN ctl.prev[t] ELSE NegInf
            /\ ctl.topP = 0 => kept = {sorted[1]}

\* a top-p stage with 0 < p < 1 kept the top token and the crossing token
\* and removed a third one
C18_Witness ==
    /\ ctl # Nil /\ lastStage = "topP" /\ 0 < ctl.topP /\ ctl.topP < 100
    /\ \A t \in Vocab : ctl.prev[t] # NegInf
    /\ Cardinality({t \in Vocab : ctl.cur[t] # NegInf}) = 2
    /\ ctl.cur[SortedIndices(ctl.prev)[2]] # NegInf

\* the output path is as the call found it
outputUntouched ==
    /\ cnv.out = cnv.out0
    /\ cnv.outData = cnv.outData0

\* C19: when the output file exists and OverwriteIfExist is false,
\* ConvertPickledModelToRWKVLM returns success without reading the config or
\* the pickle and without creating or modifying any file.
C19_ExistingOutputSkipsConversion ==
    (cnv # Nil /\ cnv.out0 = "file" /\ ~cnv.overwrite /\ cnv.pc # "start") =>
        /\ cnv.pc = "returned" /\ cnv.err = "nil"
        /\ cnv.reads = {} /\ cnv.ran = << >> /\ cnv.params = << >>
        /\ outputUntouched

\* the call returned success on an existing output in a directory whose
\* config.json cannot be loaded and whose checkpoint is not a pickle
C19_Witness ==
    /\ cnv # Nil /\ cnv.out0 = "file" /\ ~cnv.overwrite
    /\ cnv.pc = "returned" /\ cnv.err = "nil"
    /\ ~cnv.configOK /\ cnv.ckpt.load = "malformed"

\* C20: when a conversion step fails (a missing parameter, a tensor that
\* does not match its expected dimensions, an unsupported storage kind, a
\* malformed pickle) the conversion returns an error, no later step runs and
\* the output file is not written.
C20_StepFailureReturnsError ==
    (cnv # Nil /\ cnv.pc \in {"returned", "panicked"} /\ Len(cnv.ran) \in 1 .. 5) =>
        /\ cnv.pc = "returned" /\ cnv.err = "error"
        /\ \A n \in DOMAIN cnv.ran : cnv.ran[n] # "dumpModel"
        /\ outputUntouched

\* C22: over gRPC, once the generated tokens have a tail equal to one of the
\* request's stop_sequences (and the length MinLen), GenerateTokens generates
\* and streams no further token.
C22_GrpcStopSequencesStop ==
    caller = "grpc" =>
        \A k \in 1 .. (Len(sent) - 1) :
            ~(/\ k >= req.MinLen
              /\ \E n \in DOMAIN req.StopSequencesIDs :
                    LET st == req.StopSequencesIDs[n]
                    IN  /\ Len(st) <= k
                        /\ \A j \in 1 .. Len(st) : st[j] = sent[k - Len(st) + j])

\* C24: Decode on an input without hidden representation or without State
\* returns an error, generates and emits no token, advances no state, and
\* closes the output stream.
C24_InvalidInputIsError ==
    ((input.Encoding = Nil \/ input.State = Nil) /\ pc \in {"returned", "done"}) =>
        /\ exitPath = "invalid"
        /\ genErr = "invalid input"
        /\ sequence = << >> /\ sent = << >> /\ streamOut = << >>
        /\ i = 0 /\ x = Nil /\ s = Nil /\ nt = {}
        /\ created \subseteq extractNodesToRelease(hiddenNode(0), stateAfter(0))
        /\ chGen.closed = 1

\* Decode returned on an input that has the hidden representation and lacks
\* the State
C24_Witness ==
    /\ pc = "returned" /\ exitPath = "invalid"
    /\ input.Encoding # Nil /\ input.State = Nil
    /\ chGen.closed = 1

\* C25: inside Decode, every step that does not stop re-encodes exactly the
\* token it chose, once, advancing x and the State before the next prediction;
\* the step that stops does not encode: a run of n >= 1 tokens that ended on a
\* stop condition advanced the State n - 1 times.
C25_EncodeOncePerNonStoppingStep ==
    (exitPath \notin {"invalid", "config"} /\ x # Nil) =>
        /\ i = Len(fedBack)
        /\ x = hiddenNode(i) /\ s = stateAfter(i)
        /\ fedBack = SubSeq(sequence, 1, i)
        /\ pc = "loop" => Len(sequence) = i
        /\ pc \in {"send", "check", "encode"} => Len(sequence) = i + 1
        /\ exitPath = "stop" => (Len(sequence) >= 1 /\ i = Len(sequence) - 1)

C25_Witness ==
    /\ exitPath = "stop" /\ pc = "returned"
    /\ Len(sequence) = 3 /\ i = 2
    /\ fedBack = SubSeq(sequence, 1, 2)
    /\ sequence[1] # sequence[2]

\* C28: the goroutine that GenerateTokens starts always terminates: while it
\* has not finished its send on errCh, some step of the request can still be
\* taken, so it is never left blocked on the token channel or on errCh.
C28_ProducerNeverBlockedForever ==
    (caller = "grpc" /\ pc \notin {"idle", "done"}) => ENABLED Next

\* C26: in sampling mode the token comes from a single uniform draw and one
\* scan of the distribution, with no second draw, and the token returned has
\* non-zero probability: its score was not filtered to negative infinity.
C26_SingleDrawNonZeroProbability ==
    (ctl # Nil /\ ctl.sampling) =>
        /\ ctl.draws <= 1
        /\ ctl.draws = 1 => ctl.phase = "done"
        /\ ctl.phase = "done" =>
              /\ ctl.tok \in Vocab
              /\ ctl.cur[ctl.tok] # NegInf
              /\ SoftmaxRounded(ctl.cur)[ctl.tok] > 0

\* C27: after any sequence of conversion runs, whenever
\* ConvertPickledModelToRWKVLM returns success the output file holds a
\* complete model dump: no success is reported over a partially written file
\* that an earlier failed run left.
C27_SuccessMeansCompleteDump ==
    (cnv # Nil /\ cnv.pc = "returned" /\ cnv.err = "nil") =>
        /\ cnv.out = "file"
        /\ cnv.outData \in {"old", "new"}

\* C30: a file whose download failed (request error, non-200 response or
\* copy error) is attempted again by a later Download with
\* overwriteIfExists = false: such a call never skips it as already
\* downloaded.
C30_FailedDownloadIsRetried ==
    dl # Nil => \A f \in dl.skipped : f \notin dl.failed

\* C23: Load on a model directory whose artifacts are missing (not
\* downloaded or not converted) returns the error that tells the user to
\* download and convert the model; a directory with some other I/O failure
\* and nothing missing gets a different error.
C23_MissingArtifactsGetSpecificError ==
    (ld # Nil /\ ld.pc = "returned") =>
        LET kinds == {ld.vocab, ld.merges, ld.model}
        IN  /\ ("missing" \in kinds /\ kinds \subseteq {"ok", "missing"})
                    => ld.err = errNotConverted
            /\ ("missing" \notin kinds /\ kinds # {"ok"})
                    => ld.err \notin {errNotConverted, noError}

\* C29: once the reader goroutine has cancelled the main context and
\* exited, ServeHTTP is not left blocked waiting for a client message: until
\* it has returned, the handler always has a step it can take.
C29_HandlerNotBlockedAfterReaderExit ==
    (ui # Nil /\ ui.reader = "exited" /\ ui.hpc # "returned") => ENABLED UIHandlerStep

\* C21: dumping a model and loading it back is a round trip: gobEncode
\* writes config, embeddings, root layer-norm, output projection, encoder
\* config and the layers in index order, flushing after each chunk, and the
\* load of a file that Dump wrote succeeds and returns the same config
\* fields, the same layers in the same order and the same weights.
C21_DumpLoadRoundTrip ==
    gb # Nil =>
        LET m == gb.model
            written == <<m.Config, m.Embeddings, m.LN, m.Linear, m.EncoderConfig>> \o m.Layers
        IN  /\ gb.pc = "encode" => (gb.buf = << >> /\ Len(gb.file) = gb.k - 1)
            /\ \A n \in DOMAIN gb.file : gb.file[n] = gobChunk(written[n])
            /\ gb.dumpOK => (Len(gb.file) = Len(written) /\ gb.pc # "loadFailed")
            /\ (gb.dumpOK /\ gb.pc = "loaded") =>
                  /\ gb.obj.Config = m.Config
                  /\ gb.obj.EncoderConfig = m.EncoderConfig
                  /\ Len(gb.obj.Layers) = Len(m.Layers)
                  /\ \A n \in DOMAIN m.Layers : gb.obj.Layers[n] = m.Layers[n]
                  /\ gb.obj = m

\* a model of two different layers, with zero-valued fields, came back
C21_Witness ==
    /\ gb # Nil /\ gb.dumpOK /\ gb.pc = "loaded"
    /\ Len(gb.obj.Layers) = 2 /\ gb.obj.Layers[1] # gb.obj.Layers[2]
    /\ gb.model.Config.RescaleLayer = 0 /\ gb.model.Linear.Value = 1
====
